---- MODULE Spec2Model ----
(***************************************************************************)
(* Model of the Snowflake budget calculator's engine (src/lib/calc.py):    *)
(* the warehouse sizer pick_size and the cost pipeline compute, and of the *)
(* command-line script that runs it (src/scripts/cli.py).                  *)
(*                                                                         *)
(* Numbers.  Python's floats and ints are modelled as exact rationals      *)
(* [n, d] in lowest terms with d > 0; rounding of IEEE doubles is not      *)
(* modelled.  JSON null / a missing .get() is NoneVal (d = 0).             *)
(* Dictionaries are functions; a key is present iff it is in the DOMAIN.   *)
(***************************************************************************)
EXTENDS Integers, Sequences, FiniteSets, TLC

\* fn .. outcome: one call of pick_size or compute, stage by stage.
\* par: several compute calls running at once over the shared tables
\* pricing, rules and calib.
\* cli: one run of scripts/cli.py, which loads the tables and calls compute.
VARIABLES fn, inp, pricing, rules, calib, pc, loc, outcome, par, cli

vars == <<fn, inp, pricing, rules, calib, pc, loc, outcome, par, cli>>

(* ------------------------------ numbers ------------------------------ *)

\* Euclid's algorithm. The pair is bound as a value so that each level works
\* on numbers, not on the unevaluated remainders of the levels above it.
RECURSIVE Gcd(_, _)
Gcd(a, b) ==
  CHOOSE g \in { IF p[2] = 0 THEN p[1] ELSE Gcd(p[2], p[1] % p[2]) :
                   p \in {<<a, b>>} } : TRUE

Abs(x) == IF x < 0 THEN -x ELSE x

\* n / d in lowest terms with a positive denominator (n and d bound as values)
Rat(n, d) ==
  CHOOSE r \in { LET g == Gcd(Abs(p[1]), Abs(p[2]))
                     s == IF p[2] < 0 THEN -1 ELSE 1
                 IN [n |-> s * (p[1] \div g), d |-> s * (p[2] \div g)] :
                 p \in {<<n, d>>} } : TRUE

R(i) == [n |-> i, d |-> 1]

Zero == R(0)

NoneVal == [n |-> 0, d |-> 0]

IsNone(x) == x.d = 0

\* the operands of the three operations are bound as values too
RAdd(a, b) ==
  CHOOSE r \in { Rat(p[1].n * p[2].d + p[2].n * p[1].d, p[1].d * p[2].d) :
                   p \in {<<a, b>>} } : TRUE

RMul(a, b) ==
  CHOOSE r \in { Rat(p[1].n * p[2].n, p[1].d * p[2].d) : p \in {<<a, b>>} } : TRUE

\* a / b for b # 0 (the callers raise ZeroDivisionError before dividing by 0)
RDiv(a, b) ==
  CHOOSE r \in { Rat(p[1].n * p[2].d, p[1].d * p[2].n) : p \in {<<a, b>>} } : TRUE

RLe(a, b) == a.n * b.d <= b.n * a.d

RLt(a, b) == a.n * b.d < b.n * a.d

\* Python's min(a, b): b only when b < a
RMin(a, b) == IF RLt(b, a) THEN b ELSE a

\* variant of Max1 that takes the concurrency as given
Max1AsGiven(c) == c

\* Python's max(1, concurrency) on ints
Max1(c) == IF c > 1 THEN c ELSE 1

\* Python truthiness of a number or None
Falsy(x) == IsNone(x) \/ x.n = 0

\* x or y
Or(x, y) == IF Falsy(x) THEN y ELSE x

(* ---------------------------- dictionaries --------------------------- *)

EmptyDict == [k \in {} |-> NoneVal]

Has(d, k) == k \in DOMAIN d

\* d.get(k, dflt)
Get(d, k, dflt) == IF Has(d, k) THEN d[k] ELSE dflt

Drop(d, k) == [x \in DOMAIN d \ {k} |-> d[x]]

Put(d, k, v) == (k :> v) @@ d

(* ------------------------------ ladder ------------------------------- *)

order == <<"XS", "S", "M", "L", "XL", "2XL", "3XL", "4XL">>

Sizes == {order[i] : i \in 1..Len(order)}

Pos(s) == CHOOSE i \in 1..Len(order) : order[i] = s

SecondsPerHour == 3600

Raise(l, type, msg) == [l EXCEPT !.exc = type, !.msg = msg]

(* ----------------------------- pick_size ----------------------------- *)

\* The frame of one pick_size call: its parameters and locals.
PickFrame(xs, w, c, sf) ==
  [xs_hours |-> xs, window_h |-> w, concurrency |-> c, size_factor |-> sf,
   need |-> NoneVal, i |-> 0, ret |-> "", exc |-> "", msg |-> ""]

\* variant of Need that spreads the load over the concurrent jobs
NeedDivided(xs, c) == RDiv(xs, R(Max1(c)))

\* need = xs_hours * max(1, concurrency)
Need(xs, c) == RMul(xs, R(Max1(c)))

\* wh_hours <= window_h
FitsWindow(wh_hours, window_h) == RLe(wh_hours, window_h)

\* variant of PickEntry whose loop starts at the second ladder size
PickEntrySkipsXS(p) == [p EXCEPT !.need = Need(p.xs_hours, p.concurrency), !.i = 2]

\* need = ...; order = [...]: the loop starts at the first ladder size
PickEntry(p) == [p EXCEPT !.need = Need(p.xs_hours, p.concurrency), !.i = 1]

\* variant of PickIter that goes back to the first ladder size after the last
PickIterStartsOver(p) ==
  LET s == order[p.i] IN
  IF ~Has(p.size_factor, s) THEN Raise(p, "KeyError", s)
  ELSE IF IsNone(p.size_factor[s]) THEN Raise(p, "TypeError", s)
  ELSE IF p.size_factor[s].n = 0 THEN Raise(p, "ZeroDivisionError", s)
  ELSE IF FitsWindow(RDiv(p.need, p.size_factor[s]), p.window_h)
       THEN [p EXCEPT !.ret = s]
       ELSE [p EXCEPT !.i = IF @ = Len(order) THEN 1 ELSE @ + 1]

\* One iteration of "for s in order": look the factor up, divide, compare.
PickIter(p) ==
  LET s == order[p.i] IN
  IF ~Has(p.size_factor, s) THEN Raise(p, "KeyError", s)
  ELSE IF IsNone(p.size_factor[s]) THEN Raise(p, "TypeError", s)
  ELSE IF p.size_factor[s].n = 0 THEN Raise(p, "ZeroDivisionError", s)
  ELSE IF FitsWindow(RDiv(p.need, p.size_factor[s]), p.window_h)
       THEN [p EXCEPT !.ret = s]
       ELSE [p EXCEPT !.i = @ + 1]

\* variant of PickFallback that gives the first ladder size back
PickFallbackSmallest(p) == [p EXCEPT !.ret = "XS"]

\* The loop ran out of sizes: return "4XL"
PickFallback(p) == [p EXCEPT !.ret = "4XL"]

PickEnded(p) == p.ret # "" \/ p.exc # ""

RECURSIVE PickRun(_)
PickRun(p) ==
  IF PickEnded(p) THEN p
  ELSE IF p.i > Len(order) THEN PickFallback(p)
  ELSE PickRun(PickIter(p))

\* pick_size run to its end: the frame holding ret, or exc
PickSize(xs, w, c, sf) == PickRun(PickEntry(PickFrame(xs, w, c, sf)))

(* ------------------------------ compute ------------------------------ *)

NoFrame == PickFrame(NoneVal, NoneVal, 0, EmptyDict)

\* compute's locals before the first statement
LocInit ==
  [exc |-> "", msg |-> "", p |-> NoFrame,
   wf |-> "", k |-> NoneVal, xs_hours |-> NoneVal,
   size |-> "", credits_per_hour |-> NoneVal,
   wh_hours_day |-> NoneVal, wh_credits_day |-> NoneVal,
   cs_credits_day |-> NoneVal,
   snowpipe_credits_day |-> NoneVal, searchopt_credits_day |-> NoneVal,
   tasks_credits_day |-> NoneVal, serverless_credits_day |-> NoneVal,
   monthly_credits |-> NoneVal,
   edition_key |-> "", price_per_credit |-> NoneVal, monthly_dollars |-> NoneVal,
   regular_storage_monthly |-> NoneVal, time_travel_storage_monthly |-> NoneVal,
   failsafe_storage_monthly |-> NoneVal, storage_monthly |-> NoneVal,
   egress_route_key |-> "", transfer_monthly |-> NoneVal,
   grand_total |-> NoneVal]

Empty(d) == DOMAIN d = {}

RegionPricing(P, in) == P["regions"][in.region]

\* variant of Validate that does not look for the credits-per-hour map
ValidateSizeFactorOnly(in, P, Ru, C, l) ==
  IF Empty(P) \/ ~Has(P, "regions") \/ ~Has(P["regions"], in.region)
    THEN Raise(l, "ValueError", "region")
  ELSE IF ~Has(RegionPricing(P, in), "pricePerCredit")
    THEN Raise(l, "ValueError", "pricePerCredit")
  ELSE IF Empty(C) \/ ~Has(C, "workloadFamilies")
    THEN Raise(l, "ValueError", "workloadFamilies")
  ELSE IF Empty(Ru) \/ ~Has(Ru, "sizeFactor")
    THEN Raise(l, "ValueError", "rules")
  ELSE l

\* STEP 0: the four configuration checks, each raising ValueError
Validate(in, P, Ru, C, l) ==
  IF Empty(P) \/ ~Has(P, "regions") \/ ~Has(P["regions"], in.region)
    THEN Raise(l, "ValueError", "region")
  ELSE IF ~Has(RegionPricing(P, in), "pricePerCredit")
    THEN Raise(l, "ValueError", "pricePerCredit")
  ELSE IF Empty(C) \/ ~Has(C, "workloadFamilies")
    THEN Raise(l, "ValueError", "workloadFamilies")
  ELSE IF Empty(Ru) \/ ~Has(Ru, "sizeFactor") \/ ~Has(Ru, "warehouseCreditsPerHour")
    THEN Raise(l, "ValueError", "rules")
  ELSE l

KKey == "k_xs_seconds_per_db2_cpu_second"

\* xs_hours = (cpu * k) / 3600.0
XsHours(cpu, k) == RDiv(RMul(cpu, k), R(SecondsPerHour))

\* variant of ResolveFamily that falls back to a fixed family
ResolveFamilyFixed(in, C) ==
  IF Has(C["workloadFamilies"], in.family) THEN in.family ELSE "elt_batch"

\* wf = inp.family if inp.family in families else calib["defaultFamily"]
ResolveFamily(in, C) ==
  IF Has(C["workloadFamilies"], in.family) THEN in.family ELSE C["defaultFamily"]

\* STEP 1: resolve the family, read k, convert CPU seconds to XS hours
Normalize(in, P, Ru, C, l) ==
  IF ~Has(C["workloadFamilies"], in.family) /\ ~Has(C, "defaultFamily")
    THEN Raise(l, "KeyError", "defaultFamily")
  ELSE LET wf == ResolveFamily(in, C) IN
  IF ~Has(C["workloadFamilies"], wf) THEN Raise(l, "KeyError", wf)
  ELSE IF ~Has(C["workloadFamilies"][wf], KKey) THEN Raise(l, "KeyError", KKey)
  ELSE LET k == C["workloadFamilies"][wf][KKey] IN
       [l EXCEPT !.wf = wf, !.k = k,
                 !.xs_hours = XsHours(in.db2_cpu_seconds_per_day, k)]

\* STEP 2 & 3: the call pick_size(xs_hours, window, concurrency, sizeFactor)
SizeCall(in, P, Ru, C, l) ==
  [l EXCEPT !.p = PickFrame(l.xs_hours, in.batch_window_hours, in.concurrency,
                            Ru["sizeFactor"])]

\* pick_size returned (or raised) into compute
SizeReturn(l) ==
  IF l.p.exc # "" THEN Raise(l, l.p.exc, l.p.msg) ELSE [l EXCEPT !.size = l.p.ret]

\* variant of ClusterScale that ignores the cluster count
ClusterScaleIgnored(in, x) == x

\* variant of ClusterScale that scales every mode but standard
ClusterScaleUnlessStandard(in, x) ==
  IF in.warehouse_type # "standard" THEN RMul(x, R(in.cluster_count)) ELSE x

\* multi-cluster: multiply by cluster_count
ClusterScale(in, x) ==
  IF in.warehouse_type = "multi_cluster" THEN RMul(x, R(in.cluster_count)) ELSE x

\* variant of Warehouse that takes the XS hours of one job, whatever the
\* concurrency
WarehouseSingleJob(in, P, Ru, C, l) ==
  IF ~Has(Ru["warehouseCreditsPerHour"], l.size) THEN Raise(l, "KeyError", l.size)
  ELSE IF ~Has(Ru["sizeFactor"], l.size) THEN Raise(l, "KeyError", l.size)
  ELSE IF Ru["sizeFactor"][l.size].n = 0 THEN Raise(l, "ZeroDivisionError", l.size)
  ELSE
    LET cph   == Ru["warehouseCreditsPerHour"][l.size]
        hours == RDiv(l.xs_hours, Ru["sizeFactor"][l.size])
        creds == RMul(hours, cph)
    IN [l EXCEPT !.credits_per_hour = cph,
                 !.wh_credits_day = ClusterScale(in, creds),
                 !.wh_hours_day = ClusterScale(in, hours)]

\* STEP 4: credits per hour of the size, warehouse hours and credits per day
Warehouse(in, P, Ru, C, l) ==
  IF ~Has(Ru["warehouseCreditsPerHour"], l.size) THEN Raise(l, "KeyError", l.size)
  ELSE IF ~Has(Ru["sizeFactor"], l.size) THEN Raise(l, "KeyError", l.size)
  ELSE IF Ru["sizeFactor"][l.size].n = 0 THEN Raise(l, "ZeroDivisionError", l.size)
  ELSE
    LET cph   == Ru["warehouseCreditsPerHour"][l.size]
        need  == Need(l.xs_hours, in.concurrency)
        hours == RDiv(need, Ru["sizeFactor"][l.size])
        creds == RMul(hours, cph)
    IN [l EXCEPT !.credits_per_hour = cph,
                 !.wh_credits_day = ClusterScale(in, creds),
                 !.wh_hours_day = ClusterScale(in, hours)]

DefaultWaiverPct == Rat(1, 10)

\* variant of CsCredits that takes the larger of the two terms
CsCreditsLarger(cap, waiver_pct, wh_hours_day, wh_credits_day) ==
  LET a == RMul(cap, wh_hours_day)
      b == RMul(waiver_pct, wh_credits_day)
  IN IF RLt(a, b) THEN b ELSE a

\* variant of CsCredits that charges the hourly cap alone
CsCreditsCapOnly(cap, waiver_pct, wh_hours_day, wh_credits_day) ==
  RMul(cap, wh_hours_day)

\* variant of CsCredits that charges what the cap exceeds the waived share by
CsCreditsNetOfWaiver(cap, waiver_pct, wh_hours_day, wh_credits_day) ==
  RAdd(RMul(cap, wh_hours_day), RMul(R(-1), RMul(waiver_pct, wh_credits_day)))

\* cs_credits_day = min(cs_cap, cs_tenpct)
CsCredits(cap, waiver_pct, wh_hours_day, wh_credits_day) ==
  RMin(RMul(cap, wh_hours_day), RMul(waiver_pct, wh_credits_day))

\* STEP 5: cloud-services credits per day
CloudServices(in, P, Ru, C, l) ==
  IF ~Has(Ru, "cloudServices") THEN Raise(l, "KeyError", "cloudServices")
  ELSE IF ~Has(Ru["cloudServices"], "capCreditsPerHour")
    THEN Raise(l, "KeyError", "capCreditsPerHour")
  ELSE
    LET cap    == Ru["cloudServices"]["capCreditsPerHour"]
        waiver == Get(Ru["cloudServices"], "waiverPctOfDailyWH", DefaultWaiverPct)
    IN [l EXCEPT !.cs_credits_day =
                    CsCredits(cap, waiver, l.wh_hours_day, l.wh_credits_day)]

\* variant of IsBcVps that leaves vps on the per-file model
IsBusinessCriticalOnly(in) == in.edition = "business_critical"

IsBcVps(in) == in.edition = "business_critical" \/ in.edition = "vps"

\* Snowpipe credits per day: per GB for business_critical / vps, else per
\* 1000 files plus a compute multiplier
SnowpipeCredits(in, sv) ==
  IF IsBcVps(in)
  THEN LET cfg  == Get(Get(sv, "snowpipe", EmptyDict), "businessCriticalVPS", EmptyDict)
           rate == Get(cfg, "rateCreditsPerGB", Rat(37, 10000))
       IN RMul(Or(in.snowpipe_uncompressed_gb_per_day, Zero), rate)
  ELSE LET cfg  == Get(Get(sv, "snowpipe", EmptyDict), "standardEnterprise", EmptyDict)
           rate == Get(cfg, "rateCreditsPer1000Files", Rat(3, 50))
           mult == Get(cfg, "multiplierCompute", Rat(5, 4))
       IN RAdd(RMul(RDiv(in.snowpipe_files_per_day, R(1000)), rate),
               RMul(Or(in.snowpipe_compute_hours_per_day, Zero), mult))

\* Search optimization: hours * compute multiplier + hours * CS multiplier
SearchOptCredits(in, sv) ==
  LET cfg == Get(sv, "searchOptimization", EmptyDict)
      h   == Or(in.searchopt_compute_hours_per_day, Zero)
  IN RAdd(RMul(h, Get(cfg, "multiplierCompute", R(2))),
          RMul(h, Get(cfg, "multiplierCloudServices", R(1))))

\* variant of TasksCredits that always takes the multiplier shape, with the
\* defaults 0.9 and 1
TasksCreditsAlwaysMultipliers(in, sv) ==
  LET cfg == Get(sv, "serverlessTasks", EmptyDict)
      h   == Or(in.tasks_hours_per_day, Zero)
      m   == Get(cfg, "multiplierCompute", NoneVal)
  IN RAdd(RMul(h, IF IsNone(m) THEN Rat(9, 10) ELSE m),
          RMul(h, Get(cfg, "multiplierCloudServices", R(1))))

\* Serverless tasks: the multiplier shape, or the legacy overhead rate
TasksCredits(in, sv) ==
  LET cfg == Get(sv, "serverlessTasks", EmptyDict)
      h   == Or(in.tasks_hours_per_day, Zero)
  IN IF ~IsNone(Get(cfg, "multiplierCompute", NoneVal))
     THEN RAdd(RMul(h, Get(cfg, "multiplierCompute", Rat(9, 10))),
               RMul(h, Get(cfg, "multiplierCloudServices", R(1))))
     ELSE RMul(h, Get(sv, "tasksOverheadCreditsPerHour", Rat(1, 4)))

\* STEP 6: serverless credits per day
Serverless(in, P, Ru, C, l) ==
  IF ~Has(P, "serverless") THEN Raise(l, "KeyError", "serverless")
  ELSE
    LET sv == P["serverless"]
        sp == SnowpipeCredits(in, sv)
        so == SearchOptCredits(in, sv)
        tk == TasksCredits(in, sv)
    IN [l EXCEPT !.snowpipe_credits_day = sp, !.searchopt_credits_day = so,
                 !.tasks_credits_day = tk,
                 !.serverless_credits_day = RAdd(RAdd(sp, so), tk)]

\* variant of Monthly that runs the workload at least once a month
MonthlyAtLeastOnce(in, P, Ru, C, l) ==
  [l EXCEPT !.monthly_credits =
      RMul(RAdd(RAdd(l.wh_credits_day, l.cs_credits_day), l.serverless_credits_day),
           R(Max1(in.frequency_per_month)))]

\* variant of Monthly that counts the warehouse and cloud-services credits only
MonthlyWithoutServerless(in, P, Ru, C, l) ==
  [l EXCEPT !.monthly_credits =
      RMul(RAdd(l.wh_credits_day, l.cs_credits_day), R(in.frequency_per_month))]

\* STEP 7: monthly credits
Monthly(in, P, Ru, C, l) ==
  [l EXCEPT !.monthly_credits =
      RMul(RAdd(RAdd(l.wh_credits_day, l.cs_credits_day), l.serverless_credits_day),
           R(in.frequency_per_month))]

\* edition_key: vps without a vps entry is priced as business_critical
EditionKey(in, ppc) ==
  IF in.edition = "vps" /\ ~Has(ppc, "vps") THEN "business_critical" ELSE in.edition

\* ppc.get(edition_key) is falsy: the "or" goes on to ppc["business_critical"]
PriceNeedsFallback(ppc, key) == Falsy(Get(ppc, key, NoneVal))

\* ppc.get(edition_key) or ppc["business_critical"]
PricePerCredit(ppc, key) ==
  IF PriceNeedsFallback(ppc, key) THEN ppc["business_critical"] ELSE ppc[key]

\* STEP 8: credits to dollars
Dollars(in, P, Ru, C, l) ==
  LET ppc == RegionPricing(P, in)["pricePerCredit"]
      key == EditionKey(in, ppc)
  IN IF ~Has(ppc, key) /\ ~Has(ppc, "business_critical")
       THEN Raise(l, "ValueError", "edition")
     ELSE IF PriceNeedsFallback(ppc, key) /\ ~Has(ppc, "business_critical")
       THEN Raise(l, "KeyError", "business_critical")
     ELSE IF IsNone(PricePerCredit(ppc, key))
       THEN Raise(l, "TypeError", "price_per_credit")
     ELSE [l EXCEPT !.edition_key = key,
                    !.price_per_credit = PricePerCredit(ppc, key),
                    !.monthly_dollars = RMul(l.monthly_credits, PricePerCredit(ppc, key))]

\* variant of Storage whose total leaves the fail-safe dollars out
StorageTotalWithoutFailsafe(in, P, Ru, C, l) ==
  LET rate == Get(RegionPricing(P, in), "storagePerTBMonth", Zero) IN
  IF IsNone(rate) THEN Raise(l, "TypeError", "storagePerTBMonth")
  ELSE
    LET reg == RMul(Or(in.uncompressed_tb_at_rest, Zero), rate)
        tt  == RMul(Or(in.time_travel_tb, Zero), rate)
        fs  == RMul(Or(in.failsafe_tb, Zero), rate)
    IN [l EXCEPT !.regular_storage_monthly = reg,
                 !.time_travel_storage_monthly = tt,
                 !.failsafe_storage_monthly = fs,
                 !.storage_monthly = RAdd(reg, tt)]

\* STEP 9: storage dollars, three categories at one rate
Storage(in, P, Ru, C, l) ==
  LET rate == Get(RegionPricing(P, in), "storagePerTBMonth", Zero) IN
  IF IsNone(rate) THEN Raise(l, "TypeError", "storagePerTBMonth")
  ELSE
    LET reg == RMul(Or(in.uncompressed_tb_at_rest, Zero), rate)
        tt  == RMul(Or(in.time_travel_tb, Zero), rate)
        fs  == RMul(Or(in.failsafe_tb, Zero), rate)
    IN [l EXCEPT !.regular_storage_monthly = reg,
                 !.time_travel_storage_monthly = tt,
                 !.failsafe_storage_monthly = fs,
                 !.storage_monthly = RAdd(RAdd(reg, tt), fs)]

\* variant of EgressRouteKey that substitutes for crossCloud only
EgressRouteKeyCrossCloudOnly(in, rates) ==
  IF in.egress_route = "crossCloud" /\ ~Has(rates, "crossCloud")
  THEN "internet" ELSE in.egress_route

\* the egress route key after the two substitutions (the two routes exclude
\* each other, so the second "if" can only overwrite the initial key)
EgressRouteKey(in, rates) ==
  LET k1 == IF in.egress_route = "crossCloud" /\ ~Has(rates, "crossCloud")
            THEN "internet" ELSE in.egress_route
  IN IF in.egress_route = "accountTransfer" /\ ~Has(rates, "accountTransfer")
     THEN "interRegion" ELSE k1

\* rates.get(key) or rates.get(route) or 0.0
EgressRate(in, rates) ==
  Or(Or(Get(rates, EgressRouteKey(in, rates), NoneVal),
        Get(rates, in.egress_route, NoneVal)),
     Zero)

\* STEP 10: transfer dollars
Transfer(in, P, Ru, C, l) ==
  LET rates == Get(RegionPricing(P, in), "egressPerTB", EmptyDict) IN
  [l EXCEPT !.egress_route_key = EgressRouteKey(in, rates),
            !.transfer_monthly = RMul(Or(in.egress_tb, Zero), EgressRate(in, rates))]

\* variant of GrandTotal that leaves the transfer dollars out
GrandTotalNoTransfer(in, P, Ru, C, l) ==
  [l EXCEPT !.grand_total = RAdd(l.monthly_dollars, l.storage_monthly)]

\* STEP 11: grand total
GrandTotal(in, P, Ru, C, l) ==
  [l EXCEPT !.grand_total =
      RAdd(RAdd(l.monthly_dollars, l.storage_monthly), l.transfer_monthly)]

\* variant of Result whose echo shows the family, edition and route that were
\* used after the substitutions
ResultEchoesResolved(in, l) ==
  [selection |-> [size |-> l.size, creditsPerHour |-> l.credits_per_hour,
                  whHoursDay |-> l.wh_hours_day, clusterCount |-> in.cluster_count],
   daily |-> [xsHours |-> l.xs_hours, whCreditsDay |-> l.wh_credits_day,
              csCreditsDay |-> l.cs_credits_day,
              serverlessCreditsDay |-> l.serverless_credits_day],
   monthly |-> [credits |-> l.monthly_credits,
                dollarsCompute |-> l.monthly_dollars,
                dollarsStorage |-> l.storage_monthly,
                dollarsStorageRegular |-> l.regular_storage_monthly,
                dollarsStorageTimeTravel |-> l.time_travel_storage_monthly,
                dollarsStorageFailsafe |-> l.failsafe_storage_monthly,
                dollarsTransfer |-> l.transfer_monthly,
                grandTotal |-> l.grand_total],
   inputsEcho |-> [db2CpuSecondsPerDay |-> in.db2_cpu_seconds_per_day,
                   batchWindowHours |-> in.batch_window_hours,
                   concurrency |-> in.concurrency,
                   uncompressedTBAtRest |-> in.uncompressed_tb_at_rest,
                   frequencyPerMonth |-> in.frequency_per_month,
                   egressTB |-> in.egress_tb,
                   egressRoute |-> l.egress_route_key,
                   region |-> in.region,
                   edition |-> l.edition_key,
                   family |-> l.wf,
                   snowpipeFilesPerDay |-> in.snowpipe_files_per_day,
                   snowpipeComputeHoursPerDay |-> in.snowpipe_compute_hours_per_day,
                   snowpipeUncompressedGBPerDay |-> in.snowpipe_uncompressed_gb_per_day,
                   searchOptComputeHoursPerDay |-> in.searchopt_compute_hours_per_day,
                   tasksHoursPerDay |-> in.tasks_hours_per_day,
                   timeTravelTB |-> in.time_travel_tb,
                   failsafeTB |-> in.failsafe_tb,
                   warehouseType |-> in.warehouse_type,
                   clusterCount |-> in.cluster_count]]

\* the returned dictionary
Result(in, l) ==
  [selection |-> [size |-> l.size, creditsPerHour |-> l.credits_per_hour,
                  whHoursDay |-> l.wh_hours_day, clusterCount |-> in.cluster_count],
   daily |-> [xsHours |-> l.xs_hours, whCreditsDay |-> l.wh_credits_day,
              csCreditsDay |-> l.cs_credits_day,
              serverlessCreditsDay |-> l.serverless_credits_day],
   monthly |-> [credits |-> l.monthly_credits,
                dollarsCompute |-> l.monthly_dollars,
                dollarsStorage |-> l.storage_monthly,
                dollarsStorageRegular |-> l.regular_storage_monthly,
                dollarsStorageTimeTravel |-> l.time_travel_storage_monthly,
                dollarsStorageFailsafe |-> l.failsafe_storage_monthly,
                dollarsTransfer |-> l.transfer_monthly,
                grandTotal |-> l.grand_total],
   inputsEcho |-> [db2CpuSecondsPerDay |-> in.db2_cpu_seconds_per_day,
                   batchWindowHours |-> in.batch_window_hours,
                   concurrency |-> in.concurrency,
                   uncompressedTBAtRest |-> in.uncompressed_tb_at_rest,
                   frequencyPerMonth |-> in.frequency_per_month,
                   egressTB |-> in.egress_tb,
                   egressRoute |-> in.egress_route,
                   region |-> in.region,
                   edition |-> in.edition,
                   family |-> in.family,
                   snowpipeFilesPerDay |-> in.snowpipe_files_per_day,
                   snowpipeComputeHoursPerDay |-> in.snowpipe_compute_hours_per_day,
                   snowpipeUncompressedGBPerDay |-> in.snowpipe_uncompressed_gb_per_day,
                   searchOptComputeHoursPerDay |-> in.searchopt_compute_hours_per_day,
                   tasksHoursPerDay |-> in.tasks_hours_per_day,
                   timeTravelTB |-> in.time_travel_tb,
                   failsafeTB |-> in.failsafe_tb,
                   warehouseType |-> in.warehouse_type,
                   clusterCount |-> in.cluster_count]]

\* How a call ends: a returned value or a raised exception
Returned(v) == [kind |-> "return", value |-> v]

Raised(type, msg) == [kind |-> "raise", exc |-> type, msg |-> msg]

NoOutcome == [kind |-> "none"]

\* A stage runs only if no earlier stage raised
Bind(l, F(_)) == IF l.exc # "" THEN l ELSE F(l)

\* compute's locals after the last stage that ran
ComputeLocals(in, P, Ru, C) ==
  LET l1  == Validate(in, P, Ru, C, LocInit)
      l2  == Bind(l1, LAMBDA l : Normalize(in, P, Ru, C, l))
      l3  == Bind(l2, LAMBDA l : SizeCall(in, P, Ru, C, l))
      l4  == Bind(l3, LAMBDA l : SizeReturn([l EXCEPT !.p = PickRun(PickEntry(l.p))]))
      l5  == Bind(l4, LAMBDA l : Warehouse(in, P, Ru, C, l))
      l6  == Bind(l5, LAMBDA l : CloudServices(in, P, Ru, C, l))
      l7  == Bind(l6, LAMBDA l : Serverless(in, P, Ru, C, l))
      l8  == Bind(l7, LAMBDA l : Monthly(in, P, Ru, C, l))
      l9  == Bind(l8, LAMBDA l : Dollars(in, P, Ru, C, l))
      l10 == Bind(l9, LAMBDA l : Storage(in, P, Ru, C, l))
      l11 == Bind(l10, LAMBDA l : Transfer(in, P, Ru, C, l))
  IN Bind(l11, LAMBDA l : GrandTotal(in, P, Ru, C, l))

\* compute(inp, pricing, rules, calib) run to its end
Compute(in, P, Ru, C) ==
  LET l == ComputeLocals(in, P, Ru, C) IN
  IF l.exc # "" THEN Raised(l.exc, l.msg) ELSE Returned(Result(in, l))

\* variant of ArgsAfter in which the waiver default is stored in the rules
\* table (dict.setdefault in place of dict.get)
ArgsAfterSetDefault(stage, in, P, Ru, C, l) ==
  IF stage = "cloud_services" /\ Has(Ru, "cloudServices")
       /\ ~Has(Ru["cloudServices"], "waiverPctOfDailyWH")
  THEN [inp |-> in, pricing |-> P, calib |-> C,
        rules |-> [Ru EXCEPT !["cloudServices"] =
                      Put(@, "waiverPctOfDailyWH", DefaultWaiverPct)]]
  ELSE [inp |-> in, pricing |-> P, rules |-> Ru, calib |-> C]

\* variant of ArgsAfter in which the multi-cluster scaling is done in place
\* on the credits-per-hour entry of the chosen size
ArgsAfterScalesInPlace(stage, in, P, Ru, C, l) ==
  IF stage = "warehouse" /\ in.warehouse_type = "multi_cluster"
       /\ Has(Ru, "warehouseCreditsPerHour")
       /\ Has(Ru["warehouseCreditsPerHour"], l.size)
  THEN [inp |-> in, pricing |-> P, calib |-> C,
        rules |-> [Ru EXCEPT !["warehouseCreditsPerHour"][l.size] =
                      RMul(@, R(in.cluster_count))]]
  ELSE [inp |-> in, pricing |-> P, rules |-> Ru, calib |-> C]

\* The four arguments after a stage of compute has run: every assignment of
\* compute and pick_size has a local name as its target, none stores into inp
\* or into a table.
ArgsAfter(stage, in, P, Ru, C, l) ==
  [inp |-> in, pricing |-> P, rules |-> Ru, calib |-> C]

\* a stage ended with locals l2: the next position, or "raised"
After(l2, next) ==
  [loc |-> l2, pc |-> IF l2.exc # "" THEN "raised" ELSE next]

\* One stage of a compute call at position stage with locals l: the locals and
\* the position after it.  The pick_size frame reads the size factors through
\* the rules table it was handed, not through a copy.
StageStep(stage, in, P, Ru, C, l) ==
  LET p == IF Has(Ru, "sizeFactor")
           THEN [l.p EXCEPT !.size_factor = Ru["sizeFactor"]] ELSE l.p
  IN CASE stage = "validate" -> After(Validate(in, P, Ru, C, l), "normalize")
       [] stage = "normalize" -> After(Normalize(in, P, Ru, C, l), "size")
       [] stage = "size" -> After(SizeCall(in, P, Ru, C, l), "pick_entry")
       [] stage = "pick_entry" ->
            [loc |-> [l EXCEPT !.p = PickEntry(p)], pc |-> "pick_loop"]
       [] stage = "pick_loop" ->
            LET q == IF p.i > Len(order) THEN PickFallback(p) ELSE PickIter(p)
            IN [loc |-> [l EXCEPT !.p = q],
                pc |-> IF PickEnded(q) THEN "pick_exit" ELSE "pick_loop"]
       [] stage = "pick_exit" -> After(SizeReturn(l), "warehouse")
       [] stage = "warehouse" -> After(Warehouse(in, P, Ru, C, l), "cloud_services")
       [] stage = "cloud_services" -> After(CloudServices(in, P, Ru, C, l), "serverless")
       [] stage = "serverless" -> After(Serverless(in, P, Ru, C, l), "monthly")
       [] stage = "monthly" -> After(Monthly(in, P, Ru, C, l), "dollars")
       [] stage = "dollars" -> After(Dollars(in, P, Ru, C, l), "storage")
       [] stage = "storage" -> After(Storage(in, P, Ru, C, l), "transfer")
       [] stage = "transfer" -> After(Transfer(in, P, Ru, C, l), "total")
       [] stage = "total" -> After(GrandTotal(in, P, Ru, C, l), "return")
       [] stage = "return" -> [loc |-> l, pc |-> "done"]

\* what the caller holds once the call is at position stage
OutcomeAt(stage, in, l) ==
  IF stage = "raised" THEN Raised(l.exc, l.msg)
  ELSE IF stage = "done" THEN Returned(Result(in, l))
  ELSE NoOutcome

(* --------------------------- configuration --------------------------- *)
(* The tables the calls are made with: the documented values and the     *)
(* shapes the engine's fallbacks and checks distinguish.                 *)

RECURSIVE Pow2(_)
Pow2(e) == IF e = 0 THEN 1 ELSE 2 * Pow2(e - 1)

CanonSizeFactor == [s \in Sizes |-> R(Pow2(Pos(s) - 1))]

CanonCreditsPerHour == [s \in Sizes |-> RMul(Rat(27, 20), CanonSizeFactor[s])]

CanonCloudServices ==
  [capCreditsPerHour |-> Rat(22, 5), waiverPctOfDailyWH |-> Rat(1, 10)]

CanonRules ==
  [sizeFactor |-> CanonSizeFactor, warehouseCreditsPerHour |-> CanonCreditsPerHour,
   cloudServices |-> CanonCloudServices]

\* positive factors that are not increasing along the ladder
ScrambledSizeFactor ==
  [s \in Sizes |-> CASE s = "S" -> R(8) [] s = "M" -> R(2) [] s = "XL" -> R(8)
                     [] OTHER -> CanonSizeFactor[s]]

WellFormedRules ==
  { CanonRules,
    [CanonRules EXCEPT !.cloudServices = Drop(CanonCloudServices, "waiverPctOfDailyWH")],
    [CanonRules EXCEPT !.cloudServices =
        [capCreditsPerHour |-> R(1), waiverPctOfDailyWH |-> Rat(1, 5)]],
    [CanonRules EXCEPT !.sizeFactor = ScrambledSizeFactor] }

MalformedRules ==
  { EmptyDict,
    Drop(CanonRules, "sizeFactor"),
    Drop(CanonRules, "warehouseCreditsPerHour"),
    Drop(CanonRules, "cloudServices"),
    [CanonRules EXCEPT !.cloudServices = Drop(CanonCloudServices, "capCreditsPerHour")],
    [CanonRules EXCEPT !.sizeFactor = Drop(CanonSizeFactor, "M")],
    [CanonRules EXCEPT !.sizeFactor = [CanonSizeFactor EXCEPT !["S"] = Zero]],
    [CanonRules EXCEPT !.warehouseCreditsPerHour = Drop(CanonCreditsPerHour, "2XL")] }

CanonFamilies ==
  [elt_batch |-> (KKey :> Rat(9, 5)), reporting |-> (KKey :> Rat(12, 5)),
   cdc |-> (KKey :> Rat(6, 5))]

CanonCalib == [workloadFamilies |-> CanonFamilies, defaultFamily |-> "reporting"]

MalformedCalibs ==
  { EmptyDict,
    Drop(CanonCalib, "workloadFamilies"),
    Drop(CanonCalib, "defaultFamily"),
    [CanonCalib EXCEPT !.defaultFamily = "olap"],
    [CanonCalib EXCEPT !.workloadFamilies = [CanonFamilies EXCEPT !["reporting"] = EmptyDict]] }

FullPrices ==
  [standard |-> R(2), enterprise |-> R(3), business_critical |-> R(4), vps |-> R(6)]

PriceShapes ==
  { FullPrices,
    Drop(FullPrices, "vps"),
    [FullPrices EXCEPT !.vps = NoneVal],
    [FullPrices EXCEPT !.vps = Zero],
    Drop(Drop(FullPrices, "vps"), "business_critical"),
    Drop(FullPrices, "enterprise"),
    Drop(FullPrices, "business_critical"),
    [FullPrices EXCEPT !.standard = Zero],
    [Drop(FullPrices, "business_critical") EXCEPT !.standard = Zero],
    [FullPrices EXCEPT !.enterprise = NoneVal, !.business_critical = NoneVal] }

FullEgress ==
  [intraRegion |-> Zero, interRegion |-> R(20), crossCloud |-> R(95),
   internet |-> R(90), accountTransfer |-> R(25)]

EgressShapes ==
  { FullEgress,
    Drop(Drop(FullEgress, "crossCloud"), "accountTransfer"),
    Drop(Drop(Drop(FullEgress, "crossCloud"), "accountTransfer"), "internet"),
    [FullEgress EXCEPT !.crossCloud = NoneVal] }

EastRegion ==
  [pricePerCredit |-> FullPrices, storagePerTBMonth |-> R(23), egressPerTB |-> FullEgress]

EuRegion ==
  [pricePerCredit |-> [standard |-> Rat(13, 5), enterprise |-> Rat(39, 10),
                       business_critical |-> Rat(26, 5)],
   storagePerTBMonth |-> R(23),
   egressPerTB |-> Drop(Drop(FullEgress, "crossCloud"), "accountTransfer")]

RegionShapes ==
  { [EastRegion EXCEPT !.egressPerTB = e] : e \in EgressShapes }
  \cup { Drop(EastRegion, "egressPerTB"), Drop(EastRegion, "storagePerTBMonth"),
          \* a rate below zero, which no published price list has
          [EastRegion EXCEPT !.storagePerTBMonth = R(-23)] }

CanonServerless ==
  [snowpipe |->
     [standardEnterprise |-> [rateCreditsPer1000Files |-> Rat(3, 50),
                              multiplierCompute |-> Rat(5, 4)],
      businessCriticalVPS |-> [rateCreditsPerGB |-> Rat(37, 10000)]],
   searchOptimization |-> [multiplierCompute |-> R(2), multiplierCloudServices |-> R(1)],
   serverlessTasks |-> [multiplierCompute |-> Rat(9, 10), multiplierCloudServices |-> R(1)]]

ServerlessShapes ==
  { CanonServerless,
    \* every rate differs from the engine's default
    [snowpipe |->
       [standardEnterprise |-> [rateCreditsPer1000Files |-> Rat(1, 10),
                                multiplierCompute |-> R(2)],
        businessCriticalVPS |-> [rateCreditsPerGB |-> Rat(1, 100)]],
     searchOptimization |-> [multiplierCompute |-> R(3), multiplierCloudServices |-> R(2)],
     serverlessTasks |-> [multiplierCompute |-> R(1)]],
    \* the legacy shape: no task multiplier, one overhead rate
    [Drop(CanonServerless, "serverlessTasks") EXCEPT !.snowpipe = EmptyDict]
       @@ [tasksOverheadCreditsPerHour |-> Rat(1, 2)],
    [Drop(CanonServerless, "serverlessTasks") EXCEPT !.snowpipe = EmptyDict]
       @@ [serverlessTasks |-> [multiplierCloudServices |-> R(3)]],
    \* multiplierCompute: null beside an overhead rate
    [CanonServerless EXCEPT !.serverlessTasks =
        [multiplierCompute |-> NoneVal, multiplierCloudServices |-> R(3)]]
       @@ [tasksOverheadCreditsPerHour |-> Rat(1, 2)],
    EmptyDict }

PricingOf(east, sv) ==
  [regions |-> ("aws-us-east-1" :> east) @@ ("aws-eu-west-1" :> EuRegion),
   serverless |-> sv]

CanonPricing == PricingOf(EastRegion, CanonServerless)

MalformedPricings ==
  { EmptyDict,
    Drop(CanonPricing, "regions"),
    Drop(CanonPricing, "serverless"),
    PricingOf(Drop(EastRegion, "pricePerCredit"), CanonServerless) }

(* ------------------------------ inputs ------------------------------- *)

MaxConcurrency == 2

MaxClusters == 3

Editions == {"standard", "enterprise", "business_critical", "vps"}

Routes == {"intraRegion", "interRegion", "crossCloud", "internet", "accountTransfer"}

WarehouseTypes == {"standard", "multi_cluster", "serverless"}

\* scenario A of the validation script
BaseInput ==
  [db2_cpu_seconds_per_day |-> R(72000), batch_window_hours |-> R(4),
   concurrency |-> 2, uncompressed_tb_at_rest |-> R(30),
   frequency_per_month |-> 30, egress_tb |-> R(2), egress_route |-> "interRegion",
   region |-> "aws-us-east-1", edition |-> "enterprise", family |-> "elt_batch",
   snowpipe_files_per_day |-> Zero, snowpipe_compute_hours_per_day |-> Zero,
   snowpipe_uncompressed_gb_per_day |-> Zero,
   searchopt_compute_hours_per_day |-> Zero, tasks_hours_per_day |-> Zero,
   time_travel_tb |-> Zero, failsafe_tb |-> Zero,
   warehouse_type |-> "standard", cluster_count |-> 1]

\* sizing: CPU seconds, window, concurrency, family, deployment mode
SizingInputs ==
  { [BaseInput EXCEPT !.db2_cpu_seconds_per_day = cpu, !.batch_window_hours = w,
                      !.concurrency = c, !.family = f,
                      !.warehouse_type = wt, !.cluster_count = n] :
      cpu \in {Zero, R(3600), R(72000), R(720000)}, w \in {R(1), R(4)},
      c \in 0..MaxConcurrency, f \in {"elt_batch", "reporting", "adhoc"},
      wt \in WarehouseTypes, n \in 1..MaxClusters }

\* pricing: edition, region, frequency
PriceInputs ==
  { [BaseInput EXCEPT !.edition = e, !.region = r, !.frequency_per_month = fr,
                      !.db2_cpu_seconds_per_day = cpu] :
      e \in Editions, r \in {"aws-us-east-1", "aws-eu-west-1", "azure-mars-1"},
      fr \in {0, 1, 30}, cpu \in {Zero, R(72000)} }

\* serverless features
ServerlessInputs ==
  { [BaseInput EXCEPT !.edition = e, !.snowpipe_files_per_day = fl,
                      !.snowpipe_compute_hours_per_day = ch,
                      !.snowpipe_uncompressed_gb_per_day = gb,
                      !.searchopt_compute_hours_per_day = so,
                      !.tasks_hours_per_day = tk] :
      e \in Editions, fl \in {Zero, R(1000)}, ch \in {Zero, R(1)},
      gb \in {Zero, R(1000)}, so \in {Zero, R(2)}, tk \in {Zero, Rat(1, 2)} }

\* storage and egress
StorageTransferInputs ==
  { [BaseInput EXCEPT !.uncompressed_tb_at_rest = tb, !.time_travel_tb = tt,
                      !.failsafe_tb = fs, !.egress_tb = eg, !.egress_route = rt] :
      tb \in {Zero, R(30)}, tt \in {Zero, R(1)}, fs \in {Zero, R(2)},
      eg \in {Zero, R(2)}, rt \in Routes }

\* the edge cases of the validation script (concurrency 0, zero values) and
\* their neighbours, a concurrency below 0 among them
EdgeInputs ==
  { [BaseInput EXCEPT !.db2_cpu_seconds_per_day = cpu, !.batch_window_hours = R(1),
                      !.concurrency = c, !.uncompressed_tb_at_rest = tb,
                      !.frequency_per_month = fr, !.egress_tb = eg,
                      !.egress_route = rt, !.edition = "standard",
                      !.warehouse_type = wt, !.cluster_count = MaxClusters] :
      cpu \in {Zero, R(3600), R(72000)}, c \in {-1, 0}, tb \in {Zero, R(1)},
      fr \in {0, 1}, eg \in {Zero, R(2)}, rt \in {"intraRegion", "interRegion"},
      wt \in {"standard", "multi_cluster"} }

\* the substitutions: a family the calibration lacks, vps in a region without
\* a vps price, routes without a rate
FallbackInputs ==
  { [BaseInput EXCEPT !.family = f, !.edition = e, !.egress_route = rt,
                      !.region = "aws-eu-west-1"] :
      f \in {"elt_batch", "adhoc"}, e \in {"enterprise", "vps"},
      rt \in {"interRegion", "crossCloud", "accountTransfer"} }

Call(in, P, Ru, C) == [inp |-> in, pricing |-> P, rules |-> Ru, calib |-> C]

ComputeCalls ==
  { Call(in, CanonPricing, Ru, CanonCalib) :
      in \in SizingInputs \cup EdgeInputs, Ru \in WellFormedRules }
  \cup { Call(in, PricingOf([EastRegion EXCEPT !.pricePerCredit = ppc], CanonServerless),
              CanonRules, CanonCalib) : in \in PriceInputs, ppc \in PriceShapes }
  \cup { Call(in, PricingOf(EastRegion, sv), CanonRules, CanonCalib) :
           in \in ServerlessInputs, sv \in ServerlessShapes }
  \cup { Call(in, PricingOf([EastRegion EXCEPT !.pricePerCredit = Drop(FullPrices, "vps")],
                             CanonServerless), CanonRules, CanonCalib) :
           in \in { i \in ServerlessInputs : i.edition = "vps" } }
  \cup { Call(in, PricingOf(rg, CanonServerless), CanonRules, CanonCalib) :
           in \in StorageTransferInputs, rg \in RegionShapes }
  \cup { Call(in, CanonPricing, CanonRules, CanonCalib) : in \in FallbackInputs }
  \cup { Call(in, P, CanonRules, CanonCalib) :
           in \in {BaseInput}, P \in MalformedPricings }
  \cup { Call(in, CanonPricing, Ru, CanonCalib) :
           in \in {BaseInput, [BaseInput EXCEPT !.db2_cpu_seconds_per_day = Zero]},
           Ru \in MalformedRules }
  \cup { Call(in, CanonPricing, CanonRules, C) :
           in \in {BaseInput, [BaseInput EXCEPT !.family = "adhoc"]},
           C \in MalformedCalibs }

\* direct calls of pick_size
PickCalls ==
  { PickFrame(xs, w, c, sf) :
      xs \in {Zero, Rat(1, 2), R(1), R(36), R(130), R(600)}, w \in {R(1), R(4)},
      c \in (-1)..(MaxConcurrency + 1),
      sf \in {CanonSizeFactor, ScrambledSizeFactor,
              [CanonSizeFactor EXCEPT !["L"] = Zero], Drop(CanonSizeFactor, "4XL")} }

\* the number of compute calls running at once
NumCalls == 2

Threads == 1..NumCalls

\* what the concurrent calls are made with: small workloads (short ladder
\* walks), one of them multi-cluster, one with an unknown family and vps
ParInputs ==
  { [BaseInput EXCEPT !.db2_cpu_seconds_per_day = R(3600)],
    [BaseInput EXCEPT !.db2_cpu_seconds_per_day = R(3600),
                      !.warehouse_type = "multi_cluster", !.cluster_count = 2],
    [BaseInput EXCEPT !.db2_cpu_seconds_per_day = R(7200), !.family = "adhoc",
                      !.edition = "vps", !.egress_route = "crossCloud"] }

\* the table instances the concurrent calls share
ParTables ==
  { [pricing |-> CanonPricing, calib |-> CanonCalib,
     rules |-> [CanonRules EXCEPT !.cloudServices =
                   Drop(CanonCloudServices, "waiverPctOfDailyWH")]],
    [pricing |-> Drop(CanonPricing, "serverless"), calib |-> CanonCalib,
     rules |-> CanonRules] }

IdleCall == [inp |-> BaseInput, pc |-> "idle", loc |-> LocInit, outcome |-> NoOutcome]

NoCalls ==
  [orig |-> [pricing |-> EmptyDict, rules |-> EmptyDict, calib |-> EmptyDict],
   th |-> [i \in Threads |-> IdleCall]]

(* ------------------- the command line (scripts/cli.py) ---------------- *)

\* the exit status of argparse after an error in the command line
ArgparseErrorExit == 2

\* what ap.parse_args() makes of the command line: the namespace, an error
\* (a required option missing, a value outside "choices", a number that does
\* not parse) or -h; in the last two cases argparse ends the process itself
ParseArgs(argv) ==
  IF argv.kind = "invalid"
    THEN [exit |-> ArgparseErrorExit, out |-> <<>>, err |-> <<"usage">>]
  ELSE IF argv.kind = "help" THEN [exit |-> 0, out |-> <<"help">>, err |-> <<>>]
  ELSE [exit |-> -1, out |-> <<>>, err |-> <<>>]

\* args.region not in pricing["regions"]
RegionKnown(a, P) == Has(P["regions"], a.region)

\* variant of EditionAccepted that leaves the edition to the engine
EditionAcceptedUnchecked(a, P) == TRUE

\* the edition is in the region's price map, or it is vps (whose fallback is
\* the engine's)
EditionAccepted(a, P) ==
  Has(P["regions"][a.region]["pricePerCredit"], a.edition) \/ a.edition = "vps"

\* args.workload_family not in calib["workloadFamilies"]
FamilyKnown(a, C) == Has(C["workloadFamilies"], a.workload_family)

\* InputModel(...) from the namespace
InputModelOf(a) ==
  [db2_cpu_seconds_per_day |-> a.db2_cpu_seconds,
   batch_window_hours |-> a.batch_window_hours,
   concurrency |-> a.concurrency,
   uncompressed_tb_at_rest |-> a.uncompressed_tb,
   frequency_per_month |-> a.frequency_per_month,
   egress_tb |-> a.egress_tb, egress_route |-> a.egress_route,
   region |-> a.region, edition |-> a.edition, family |-> a.workload_family,
   snowpipe_files_per_day |-> a.snowpipe_files_per_day,
   snowpipe_compute_hours_per_day |-> a.snowpipe_compute_hours_per_day,
   snowpipe_uncompressed_gb_per_day |-> a.snowpipe_uncompressed_gb_per_day,
   searchopt_compute_hours_per_day |-> a.searchopt_compute_hours_per_day,
   tasks_hours_per_day |-> a.tasks_hours_per_day,
   time_travel_tb |-> a.timetravel_tb, failsafe_tb |-> a.failsafe_tb,
   warehouse_type |-> a.warehouse_type, cluster_count |-> a.cluster_count]

\* the usage example of the script; the options it leaves out at their defaults
ExampleArgs ==
  [db2_cpu_seconds |-> R(72000), batch_window_hours |-> R(4), concurrency |-> 2,
   uncompressed_tb |-> R(30), frequency_per_month |-> 30,
   workload_family |-> "elt_batch", region |-> "aws-us-east-1",
   edition |-> "enterprise", egress_tb |-> Zero, egress_route |-> "intraRegion",
   timetravel_tb |-> Zero, failsafe_tb |-> Zero,
   snowpipe_files_per_day |-> Zero, snowpipe_compute_hours_per_day |-> Zero,
   snowpipe_uncompressed_gb_per_day |-> Zero,
   searchopt_compute_hours_per_day |-> Zero, tasks_hours_per_day |-> Zero,
   warehouse_type |-> "standard", cluster_count |-> 1,
   out |-> "", csv |-> ""]

\* command lines: well-formed ones (region, edition, family, output files),
\* one that argparse rejects, and -h
CommandLines ==
  { [kind |-> "ok",
     args |-> [ExampleArgs EXCEPT !.region = r, !.edition = e,
                                  !.workload_family = f, !.out = o, !.csv = c]] :
      r \in {"aws-us-east-1", "aws-eu-west-1", "azure-mars-1"}, e \in Editions,
      f \in {"elt_batch", "adhoc"}, o \in {"", "result.json", "/no/such/dir/r.json"},
      c \in {"", "result.csv"} }
  \cup { [kind |-> k, args |-> ExampleArgs] : k \in {"invalid", "help"} }

\* paths that cannot be written
Unwritable == {"/no/such/dir/r.json"}

\* the three files of config/, or a file missing or not JSON
ConfigDirs ==
  { [readable |-> TRUE, pricing |-> P, rules |-> Ru, calib |-> C] :
      P \in { CanonPricing,
              PricingOf([EastRegion EXCEPT !.pricePerCredit = Drop(FullPrices, "vps")],
                        CanonServerless),
              PricingOf([EastRegion EXCEPT !.pricePerCredit =
                           Drop(FullPrices, "enterprise")], CanonServerless),
              PricingOf(Drop(EastRegion, "pricePerCredit"), CanonServerless),
              Drop(CanonPricing, "regions") },
      Ru \in { CanonRules, Drop(CanonRules, "cloudServices") },
      C \in { CanonCalib, Drop(CanonCalib, "defaultFamily"),
              Drop(CanonCalib, "workloadFamilies") } }
  \cup { [readable |-> FALSE, pricing |-> EmptyDict, rules |-> EmptyDict,
          calib |-> EmptyDict] }

\* no process yet
CliOff ==
  [pc |-> "off", argv |-> [kind |-> "ok", args |-> ExampleArgs],
   config |-> [readable |-> FALSE, pricing |-> EmptyDict, rules |-> EmptyDict,
               calib |-> EmptyDict],
   stdout |-> <<>>, stderr |-> <<>>, called |-> FALSE, exc |-> "", exit |-> -1]

(* --------------------------- state machine --------------------------- *)

Init ==
  /\ fn = "idle"
  /\ inp = BaseInput
  /\ pricing = EmptyDict
  /\ rules = EmptyDict
  /\ calib = EmptyDict
  /\ pc = "idle"
  /\ loc = LocInit
  /\ outcome = NoOutcome
  /\ par = NoCalls
  /\ cli = CliOff

\* a caller invokes compute(inp, pricing, rules, calib)
CallCompute ==
  /\ pc = "idle"
  /\ \E c \in ComputeCalls :
       /\ inp' = c.inp
       /\ pricing' = c.pricing
       /\ rules' = c.rules
       /\ calib' = c.calib
  /\ fn' = "compute"
  /\ pc' = "validate"
  /\ loc' = LocInit
  /\ UNCHANGED <<outcome, par, cli>>

\* a caller invokes pick_size(xs_hours, window_h, concurrency, size_factor)
CallPickSize ==
  /\ pc = "idle"
  /\ \E p \in PickCalls : loc' = [LocInit EXCEPT !.p = p]
  /\ fn' = "pick_size"
  /\ pc' = "pick_entry"
  /\ UNCHANGED <<inp, pricing, rules, calib, outcome, par, cli>>

\* a stage of compute ends: on to the next stage, or the exception leaves compute
Advance(l2, next) ==
  /\ loc' = l2
  /\ IF l2.exc # ""
     THEN pc' = "raised" /\ outcome' = Raised(l2.exc, l2.msg)
     ELSE pc' = next /\ UNCHANGED outcome
  /\ LET a == ArgsAfter(pc, inp, pricing, rules, calib, loc)
     IN inp' = a.inp /\ pricing' = a.pricing /\ rules' = a.rules /\ calib' = a.calib
  /\ UNCHANGED <<fn, par, cli>>

StepValidate ==
  pc = "validate" /\ Advance(Validate(inp, pricing, rules, calib, loc), "normalize")

StepNormalize ==
  pc = "normalize" /\ Advance(Normalize(inp, pricing, rules, calib, loc), "size")

StepSizeCall ==
  pc = "size" /\ Advance(SizeCall(inp, pricing, rules, calib, loc), "pick_entry")

StepPickEntry ==
  /\ pc = "pick_entry"
  /\ loc' = [loc EXCEPT !.p = PickEntry(loc.p)]
  /\ pc' = "pick_loop"
  /\ UNCHANGED <<fn, inp, pricing, rules, calib, outcome, par, cli>>

StepPickIter ==
  /\ pc = "pick_loop"
  /\ loc.p.i <= Len(order)
  /\ loc' = [loc EXCEPT !.p = PickIter(loc.p)]
  /\ pc' = IF PickEnded(loc'.p) THEN "pick_exit" ELSE "pick_loop"
  /\ UNCHANGED <<fn, inp, pricing, rules, calib, outcome, par, cli>>

StepPickFallback ==
  /\ pc = "pick_loop"
  /\ loc.p.i > Len(order)
  /\ loc' = [loc EXCEPT !.p = PickFallback(loc.p)]
  /\ pc' = "pick_exit"
  /\ UNCHANGED <<fn, inp, pricing, rules, calib, outcome, par, cli>>

\* pick_size, called directly, hands its value or exception to the caller
PickReturn ==
  /\ pc = "pick_exit"
  /\ fn = "pick_size"
  /\ IF loc.p.exc # ""
     THEN pc' = "raised" /\ outcome' = Raised(loc.p.exc, loc.p.msg)
     ELSE pc' = "done" /\ outcome' = Returned(loc.p.ret)
  /\ UNCHANGED <<fn, inp, pricing, rules, calib, loc, par, cli>>

\* pick_size, called by compute, hands its value or exception to compute
StepSizeReturn ==
  pc = "pick_exit" /\ fn = "compute" /\ Advance(SizeReturn(loc), "warehouse")

StepWarehouse ==
  pc = "warehouse" /\ Advance(Warehouse(inp, pricing, rules, calib, loc), "cloud_services")

StepCloudServices ==
  pc = "cloud_services"
    /\ Advance(CloudServices(inp, pricing, rules, calib, loc), "serverless")

StepServerless ==
  pc = "serverless" /\ Advance(Serverless(inp, pricing, rules, calib, loc), "monthly")

StepMonthly ==
  pc = "monthly" /\ Advance(Monthly(inp, pricing, rules, calib, loc), "dollars")

StepDollars ==
  pc = "dollars" /\ Advance(Dollars(inp, pricing, rules, calib, loc), "storage")

StepStorage ==
  pc = "storage" /\ Advance(Storage(inp, pricing, rules, calib, loc), "transfer")

StepTransfer ==
  pc = "transfer" /\ Advance(Transfer(inp, pricing, rules, calib, loc), "total")

StepGrandTotal ==
  pc = "total" /\ Advance(GrandTotal(inp, pricing, rules, calib, loc), "return")

\* return {...}
StepReturn ==
  /\ pc = "return"
  /\ outcome' = Returned(Result(inp, loc))
  /\ pc' = "done"
  /\ UNCHANGED <<fn, inp, pricing, rules, calib, loc, par, cli>>

Next ==
  \/ CallCompute
  \/ CallPickSize
  \/ StepValidate
  \/ StepNormalize
  \/ StepSizeCall
  \/ StepPickEntry
  \/ StepPickIter
  \/ StepPickFallback
  \/ PickReturn
  \/ StepSizeReturn
  \/ StepWarehouse
  \/ StepCloudServices
  \/ StepServerless
  \/ StepMonthly
  \/ StepDollars
  \/ StepStorage
  \/ StepTransfer
  \/ StepGrandTotal
  \/ StepReturn

Spec == Init /\ [][Next]_vars

(* --------------------------- a running call -------------------------- *)

\* a statement of a call that has started: the interpreter runs it and goes
\* on to the next, nothing in compute or pick_size waits for anything
Run == pc # "idle" /\ Next

SpecRun == Init /\ [][Next]_vars /\ WF_vars(Run)

(* ------------------------- concurrent calls -------------------------- *)

\* NumCalls callers invoke compute at once, each with its own InputModel, all
\* with the same three table objects
ParStart ==
  /\ pc = "idle"
  /\ \A i \in Threads : par.th[i].pc = "idle"
  /\ \E t \in ParTables, ins \in [Threads -> ParInputs] :
       /\ pricing' = t.pricing
       /\ rules' = t.rules
       /\ calib' = t.calib
       /\ par' = [orig |-> t,
                  th |-> [i \in Threads |->
                            [IdleCall EXCEPT !.inp = ins[i], !.pc = "validate"]]]
  /\ UNCHANGED <<fn, inp, pc, loc, outcome, cli>>

\* call i runs its next stage on the shared tables
ParStage(i) ==
  LET t  == par.th[i]
      st == StageStep(t.pc, t.inp, pricing, rules, calib, t.loc)
      a  == ArgsAfter(t.pc, t.inp, pricing, rules, calib, t.loc)
  IN /\ t.pc \notin {"idle", "done", "raised"}
     /\ par' = [par EXCEPT !.th[i] =
                  [inp |-> a.inp, pc |-> st.pc, loc |-> st.loc,
                   outcome |-> OutcomeAt(st.pc, a.inp, st.loc)]]
     /\ pricing' = a.pricing
     /\ rules' = a.rules
     /\ calib' = a.calib
     /\ UNCHANGED <<fn, inp, pc, loc, outcome, cli>>

NextPar ==
  \/ ParStart
  \/ \E i \in Threads : ParStage(i)

SpecPar == Init /\ [][NextPar]_vars

(* ------------------------ the command-line run ------------------------ *)

\* python scripts/cli.py <command line>, with some config directory
CliStart ==
  /\ cli.pc = "off" /\ pc = "idle"
  /\ \E argv \in CommandLines, cfg \in ConfigDirs :
       cli' = [CliOff EXCEPT !.pc = "parse", !.argv = argv, !.config = cfg]
  /\ UNCHANGED <<fn, inp, pricing, rules, calib, pc, loc, outcome, par>>

\* sys.exit(code): SystemExit is no Exception, so it passes the handler
CliExit(c, code) == [c EXCEPT !.pc = "exited", !.exit = code]

\* an exception leaves main() for the handler of the entry point
CliRaise(c, type) == [c EXCEPT !.pc = "handler", !.exc = type]

\* args = ap.parse_args()
CliParse ==
  /\ cli.pc = "parse"
  /\ LET r == ParseArgs(cli.argv)
         c == [cli EXCEPT !.stdout = @ \o r.out, !.stderr = @ \o r.err]
     IN cli' = IF r.exit >= 0 THEN CliExit(c, r.exit) ELSE [c EXCEPT !.pc = "load"]
  /\ UNCHANGED <<fn, inp, pricing, rules, calib, pc, loc, outcome, par>>

\* the three load_json calls
CliLoad ==
  /\ cli.pc = "load"
  /\ IF cli.config.readable
     THEN /\ pricing' = cli.config.pricing
          /\ rules' = cli.config.rules
          /\ calib' = cli.config.calib
          /\ cli' = [cli EXCEPT !.pc = "check_region"]
     ELSE /\ cli' = CliRaise(cli, "FileNotFoundError")
          /\ UNCHANGED <<pricing, rules, calib>>
  /\ UNCHANGED <<fn, inp, pc, loc, outcome, par>>

\* if args.region not in pricing["regions"]: two lines on stderr, exit(1)
CliCheckRegion ==
  /\ cli.pc = "check_region"
  /\ cli' = IF ~Has(pricing, "regions") THEN CliRaise(cli, "KeyError")
            ELSE IF ~RegionKnown(cli.argv.args, pricing)
              THEN CliExit([cli EXCEPT !.stderr = @ \o <<"ERROR", "available">>], 1)
            ELSE [cli EXCEPT !.pc = "check_edition"]
  /\ UNCHANGED <<fn, inp, pricing, rules, calib, pc, loc, outcome, par>>

\* if args.edition not in ...["pricePerCredit"] and it is not vps: exit(1)
CliCheckEdition ==
  /\ cli.pc = "check_edition"
  /\ cli' = IF ~Has(pricing["regions"][cli.argv.args.region], "pricePerCredit")
              THEN CliRaise(cli, "KeyError")
            ELSE IF ~EditionAccepted(cli.argv.args, pricing)
              THEN CliExit([cli EXCEPT !.stderr = @ \o <<"ERROR", "available">>], 1)
            ELSE [cli EXCEPT !.pc = "check_family"]
  /\ UNCHANGED <<fn, inp, pricing, rules, calib, pc, loc, outcome, par>>

\* if args.workload_family not in calib["workloadFamilies"]: a warning that
\* names calib["defaultFamily"]
CliCheckFamily ==
  /\ cli.pc = "check_family"
  /\ cli' = IF ~Has(calib, "workloadFamilies") THEN CliRaise(cli, "KeyError")
            ELSE IF FamilyKnown(cli.argv.args, calib) THEN [cli EXCEPT !.pc = "compute"]
            ELSE IF ~Has(calib, "defaultFamily") THEN CliRaise(cli, "KeyError")
            ELSE [cli EXCEPT !.pc = "compute", !.stderr = Append(@, "WARNING")]
  /\ UNCHANGED <<fn, inp, pricing, rules, calib, pc, loc, outcome, par>>

\* inp = InputModel(...); res = compute(inp, pricing, rules, calib)
CliCompute ==
  /\ cli.pc = "compute"
  /\ inp' = InputModelOf(cli.argv.args)
  /\ outcome' = Compute(inp', pricing, rules, calib)
  /\ cli' = IF outcome'.kind = "raise"
            THEN CliRaise([cli EXCEPT !.called = TRUE], outcome'.exc)
            ELSE [cli EXCEPT !.called = TRUE, !.pc = "print"]
  /\ UNCHANGED <<fn, pricing, rules, calib, pc, loc, par>>

\* print(json.dumps(res, indent=2))
CliPrint ==
  /\ cli.pc = "print"
  /\ cli' = [cli EXCEPT !.pc = "write", !.stdout = Append(@, "result")]
  /\ UNCHANGED <<fn, inp, pricing, rules, calib, pc, loc, outcome, par>>

\* the files of --out and --csv; then main() returns and the process ends
\* with status 0
CliWrite ==
  /\ cli.pc = "write"
  /\ cli' = IF cli.argv.args.out \in Unwritable \/ cli.argv.args.csv \in Unwritable
            THEN CliRaise(cli, "FileNotFoundError")
            ELSE CliExit(cli, 0)
  /\ UNCHANGED <<fn, inp, pricing, rules, calib, pc, loc, outcome, par>>

\* except Exception as e: print("ERROR: ...", file=sys.stderr); sys.exit(1)
CliHandler ==
  /\ cli.pc = "handler"
  /\ cli' = CliExit([cli EXCEPT !.stderr = Append(@, "ERROR")], 1)
  /\ UNCHANGED <<fn, inp, pricing, rules, calib, pc, loc, outcome, par>>

NextCli ==
  \/ CliStart
  \/ CliParse
  \/ CliLoad
  \/ CliCheckRegion
  \/ CliCheckEdition
  \/ CliCheckFamily
  \/ CliCompute
  \/ CliPrint
  \/ CliWrite
  \/ CliHandler

SpecCli == Init /\ [][NextCli]_vars

(* ------------------------------ claims ------------------------------- *)

\* (xs_hours * max(1, concurrency)) / size_factor[s], as the claims state it
ProjectedHours(xs, c, sf, s) == RDiv(RMul(xs, R(IF c >= 1 THEN c ELSE 1)), sf[s])

AllPositive(sf) == \A s \in Sizes : Has(sf, s) /\ ~IsNone(sf[s]) /\ sf[s].n > 0

\* pick_size has ended, called directly or by compute
PickDone == pc = "pick_exit"

Frame == loc.p

Fits(s) ==
  RLe(ProjectedHours(Frame.xs_hours, Frame.concurrency, Frame.size_factor, s),
      Frame.window_h)

\* compute has returned a result
ComputeReturned == fn = "compute" /\ pc = "done" /\ outcome.kind = "return"

ComputeRaised == fn = "compute" /\ pc = "raised"

Res == outcome.value

C2_SmallestSize ==
  (PickDone /\ Frame.ret # "")
  => \A s \in Sizes : Pos(s) < Pos(Frame.ret) => ~Fits(s)

\* C2 witness: pick_size(36, 4, 2, canonical factors) = 2XL
C2_Witness ==
  /\ PickDone /\ Frame.ret = "2XL"
  /\ Frame.xs_hours = R(36) /\ Frame.window_h = R(4)
  /\ Frame.concurrency = 2 /\ Frame.size_factor = CanonSizeFactor

\* C3: for c1 <= c2 the size picked for c1 is not later in the ladder than the
\* size picked for c2 (positive factors, xs_hours >= 0).
C3_MonotoneInConcurrency ==
  (PickDone /\ Frame.ret # "" /\ AllPositive(Frame.size_factor)
            /\ RLe(Zero, Frame.xs_hours))
  => \A c1 \in 0..Frame.concurrency :
       LET q == PickSize(Frame.xs_hours, Frame.window_h, c1,
                         Frame.size_factor)
       IN q.ret \in Sizes /\ Pos(q.ret) <= Pos(Frame.ret)

\* C3 witness: a lower concurrency picks a strictly smaller size
C3_Witness ==
  /\ PickDone /\ Frame.ret # "" /\ AllPositive(Frame.size_factor)
  /\ \E c1 \in 0..Frame.concurrency :
       Pos(PickSize(Frame.xs_hours, Frame.window_h, c1,
                    Frame.size_factor).ret) < Pos(Frame.ret)

WaiverOf(Ru) ==
  IF Has(Ru["cloudServices"], "waiverPctOfDailyWH")
  THEN Ru["cloudServices"]["waiverPctOfDailyWH"] ELSE Rat(1, 10)

CapTerm == RMul(rules["cloudServices"]["capCreditsPerHour"], Res.selection.whHoursDay)

WaiverTerm == RMul(WaiverOf(rules), Res.daily.whCreditsDay)

\* C4: csCreditsDay = min(cap * whHoursDay, waiverPct * whCreditsDay), with
\* waiverPct 0.10 when the key is absent; so it is at most either term, and 0
\* when whCreditsDay is 0 (rates of the tables being non-negative).
C4_CloudServicesMin ==
  ComputeReturned
  => /\ Res.daily.csCreditsDay = (IF RLe(CapTerm, WaiverTerm) THEN CapTerm ELSE WaiverTerm)
     /\ RLe(Res.daily.csCreditsDay, CapTerm)
     /\ RLe(Res.daily.csCreditsDay, WaiverTerm)
     /\ (Res.daily.whCreditsDay = Zero => Res.daily.csCreditsDay = Zero)

\* C4 witness: the waiver key is absent and the default 10% term is the smaller
C4_Witness ==
  /\ ComputeReturned
  /\ ~Has(rules["cloudServices"], "waiverPctOfDailyWH")
  /\ RLt(Zero, Res.daily.whCreditsDay)
  /\ Res.daily.csCreditsDay = RMul(Rat(1, 10), Res.daily.whCreditsDay)
  /\ RLt(Res.daily.csCreditsDay, CapTerm)

\* C5: grandTotal = dollarsCompute + dollarsStorage + dollarsTransfer
C5_GrandTotalAdditive ==
  ComputeReturned
  => Res.monthly.grandTotal =
       RAdd(RAdd(Res.monthly.dollarsCompute, Res.monthly.dollarsStorage),
            Res.monthly.dollarsTransfer)

\* C5 witness: a result whose three components are all positive
C5_Witness ==
  /\ ComputeReturned
  /\ RLt(Zero, Res.monthly.dollarsCompute)
  /\ RLt(Zero, Res.monthly.dollarsStorage)
  /\ RLt(Zero, Res.monthly.dollarsTransfer)

\* tables with every key the engine reads for this input, and a usable price
WellFormedTables ==
  /\ Validate(inp, pricing, rules, calib, LocInit).exc = ""
  /\ Has(calib, "defaultFamily")
  /\ Has(calib["workloadFamilies"], calib["defaultFamily"])
  /\ \A f \in DOMAIN calib["workloadFamilies"] : Has(calib["workloadFamilies"][f], KKey)
  /\ AllPositive(rules["sizeFactor"])
  /\ \A s \in Sizes : Has(rules["warehouseCreditsPerHour"], s)
  /\ Has(rules, "cloudServices") /\ Has(rules["cloudServices"], "capCreditsPerHour")
  /\ Has(pricing, "serverless")
  /\ LET ppc == RegionPricing(pricing, inp)["pricePerCredit"] IN
       \A e \in DOMAIN ppc : ~IsNone(ppc[e])
  /\ Has(RegionPricing(pricing, inp)["pricePerCredit"], "business_critical")

HasZeroInput ==
  \/ inp.db2_cpu_seconds_per_day = Zero
  \/ inp.frequency_per_month = 0
  \/ inp.uncompressed_tb_at_rest = Zero
  \/ inp.egress_tb = Zero

\* C7: with well-formed tables a zero-valued input does not make compute raise,
\* and each zero input yields zero in the fields it feeds.
C7_ZeroInputs ==
  /\ (fn = "compute" /\ HasZeroInput /\ WellFormedTables) => pc # "raised"
  /\ ComputeReturned =>
       /\ inp.db2_cpu_seconds_per_day = Zero =>
            /\ Res.daily.xsHours = Zero
            /\ Res.selection.size = "XS"
            /\ Res.selection.whHoursDay = Zero
            /\ Res.daily.whCreditsDay = Zero
            /\ Res.daily.csCreditsDay = Zero
       /\ inp.frequency_per_month = 0 =>
            Res.monthly.credits = Zero /\ Res.monthly.dollarsCompute = Zero
       /\ inp.uncompressed_tb_at_rest = Zero => Res.monthly.dollarsStorageRegular = Zero
       /\ inp.egress_tb = Zero => Res.monthly.dollarsTransfer = Zero

\* C7 witness: the all-zero edge case of the validation script returned
C7_Witness ==
  /\ ComputeReturned /\ WellFormedTables
  /\ inp.db2_cpu_seconds_per_day = Zero /\ inp.frequency_per_month = 0
  /\ inp.uncompressed_tb_at_rest = Zero /\ inp.egress_tb = Zero
  /\ Res.monthly.grandTotal = Zero

StandardMode == Compute([inp EXCEPT !.warehouse_type = "standard"], pricing, rules, calib)

Times(n, x) == RMul(R(n), x)

\* C8: in multi_cluster mode with N >= 1 clusters the size is that of standard
\* mode, whHoursDay, whCreditsDay and csCreditsDay are N times the standard
\* values, and the monthly credits, compute dollars and grand total are built
\* from the scaled values.
C8_MultiClusterScales ==
  (ComputeReturned /\ inp.warehouse_type = "multi_cluster" /\ inp.cluster_count >= 1)
  => /\ StandardMode.kind = "return"
     /\ Res.selection.size = StandardMode.value.selection.size
     /\ Res.selection.whHoursDay =
          Times(inp.cluster_count, StandardMode.value.selection.whHoursDay)
     /\ Res.daily.whCreditsDay =
          Times(inp.cluster_count, StandardMode.value.daily.whCreditsDay)
     /\ Res.daily.csCreditsDay =
          Times(inp.cluster_count, StandardMode.value.daily.csCreditsDay)
     /\ Res.monthly.credits =
          RMul(RAdd(RAdd(Res.daily.whCreditsDay, Res.daily.csCreditsDay),
                    Res.daily.serverlessCreditsDay), R(inp.frequency_per_month))
     /\ Res.monthly.dollarsCompute = RMul(Res.monthly.credits, loc.price_per_credit)
     /\ Res.monthly.grandTotal =
          RAdd(RAdd(Res.monthly.dollarsCompute, Res.monthly.dollarsStorage),
               Res.monthly.dollarsTransfer)

\* C8 witness: three clusters, and credits that are three times a positive value
C8_Witness ==
  /\ ComputeReturned /\ inp.warehouse_type = "multi_cluster" /\ inp.cluster_count = 3
  /\ RLt(Zero, StandardMode.value.daily.csCreditsDay)
  /\ Res.daily.whCreditsDay = Times(3, StandardMode.value.daily.whCreditsDay)

PriceMap == RegionPricing(pricing, inp)["pricePerCredit"]

\* C9: edition vps. Without a vps entry but with a business_critical entry,
\* compute raises nothing and prices the credits at the business_critical
\* rate; with a vps entry holding a price, that price is used.
C9_VpsPrice ==
  (fn = "compute" /\ pc \in {"done", "raised"} /\ inp.edition = "vps"
     /\ WellFormedTables)
  => /\ pc = "done"
     /\ ~Has(PriceMap, "vps") =>
          Res.monthly.dollarsCompute =
            RMul(Res.monthly.credits, PriceMap["business_critical"])
     /\ Has(PriceMap, "vps") =>
          Res.monthly.dollarsCompute = RMul(Res.monthly.credits, PriceMap["vps"])

DefaultFamilyCall ==
  Compute([inp EXCEPT !.family = calib["defaultFamily"]], pricing, rules, calib)

UsableDefaultFamily ==
  /\ Validate(inp, pricing, rules, calib, LocInit).exc = ""
  /\ Has(calib, "defaultFamily")
  /\ Has(calib["workloadFamilies"], calib["defaultFamily"])
  /\ Has(calib["workloadFamilies"][calib["defaultFamily"]], KKey)

\* C10: a family missing from calib.workloadFamilies raises nothing of its own
\* and gives the selection, daily and monthly sections of the same input with
\* family = calib.defaultFamily, xsHours being cpu * k_default / 3600; a family
\* that is present is converted with its own factor.
C10_UnknownFamilyUsesDefault ==
  /\ (fn = "compute" /\ pc \in {"done", "raised"} /\ UsableDefaultFamily
        /\ ~Has(calib["workloadFamilies"], inp.family))
     => /\ outcome.kind = DefaultFamilyCall.kind
        /\ WellFormedTables => pc = "done"
        /\ pc = "raised" => outcome = DefaultFamilyCall
        /\ pc = "done" =>
             /\ Res.selection = DefaultFamilyCall.value.selection
             /\ Res.daily = DefaultFamilyCall.value.daily
             /\ Res.monthly = DefaultFamilyCall.value.monthly
             /\ Res.daily.xsHours =
                  RDiv(RMul(inp.db2_cpu_seconds_per_day,
                            calib["workloadFamilies"][calib["defaultFamily"]][KKey]),
                       R(3600))
  /\ (ComputeReturned /\ Has(calib["workloadFamilies"], inp.family))
     => Res.daily.xsHours =
          RDiv(RMul(inp.db2_cpu_seconds_per_day,
                    calib["workloadFamilies"][inp.family][KKey]), R(3600))

\* C10 witness: family "adhoc" is unknown and 72000 CPU seconds became 48 XS
\* hours at the default family's factor 2.4, not 36 at elt_batch's 1.8
C10_Witness ==
  /\ ComputeReturned /\ inp.family = "adhoc"
  /\ inp.db2_cpu_seconds_per_day = R(72000)
  /\ Res.daily.xsHours = R(48)

\* one of the stage-1 conditions of the claim holds of the call's tables
StageOneBad ==
  \/ pricing = EmptyDict
  \/ "regions" \notin DOMAIN pricing
  \/ inp.region \notin DOMAIN pricing["regions"]
  \/ "pricePerCredit" \notin DOMAIN pricing["regions"][inp.region]
  \/ calib = EmptyDict
  \/ "workloadFamilies" \notin DOMAIN calib
  \/ rules = EmptyDict
  \/ "sizeFactor" \notin DOMAIN rules
  \/ "warehouseCreditsPerHour" \notin DOMAIN rules

StageOneMessages == {"region", "pricePerCredit", "workloadFamilies", "rules"}

\* C11: when a stage-1 condition holds (pricing empty, no regions, region
\* unknown, no pricePerCredit, calibration empty or without workloadFamilies,
\* rules empty or without sizeFactor or warehouseCreditsPerHour), compute
\* raises ValueError and returns nothing; otherwise stage 1 raises nothing.
C11_StageOneValueError ==
  (fn = "compute" /\ pc \notin {"idle", "validate"})
  => /\ StageOneBad =>
          pc = "raised" /\ outcome.kind = "raise" /\ outcome.exc = "ValueError"
     /\ ~StageOneBad =>
          ~(pc = "raised" /\ outcome.msg \in StageOneMessages)

\* C11 witness: rules without warehouseCreditsPerHour ended in ValueError
C11_Witness ==
  /\ ComputeRaised /\ outcome.exc = "ValueError"
  /\ rules # EmptyDict /\ "sizeFactor" \in DOMAIN rules
  /\ "warehouseCreditsPerHour" \notin DOMAIN rules

\* C12: compute ends by returning a result or by raising ValueError, never
\* KeyError, ZeroDivisionError or TypeError.
C12_OnlyValueError ==
  (fn = "compute" /\ pc \in {"done", "raised"})
  => \/ pc = "done" /\ outcome.kind = "return"
     \/ pc = "raised" /\ outcome.exc = "ValueError"

\* the edition, or business_critical for vps without a vps entry
ResolvedKey ==
  IF inp.edition = "vps" /\ "vps" \notin DOMAIN PriceMap
  THEN "business_critical" ELSE inp.edition

\* compute got as far as the currency conversion and has left it
PastConversion ==
  fn = "compute" /\ ~IsNone(loc.monthly_credits) /\ pc # "dollars"

FailedAtConversion == PastConversion /\ pc = "raised" /\ IsNone(loc.monthly_dollars)

\* C13: the currency conversion fails exactly when neither the resolved key
\* nor business_critical is a key of the price map, and then with ValueError.
C13_ConversionFailsIffNoKey ==
  PastConversion
  => /\ FailedAtConversion <=>
          (ResolvedKey \notin DOMAIN PriceMap
             /\ "business_critical" \notin DOMAIN PriceMap)
     /\ FailedAtConversion => outcome.exc = "ValueError"

\* C16: when the resolved key is in the price map with a price, dollarsCompute
\* is credits times that price, a price of 0 included.
C16_ResolvedPriceUsed ==
  (ComputeReturned /\ ResolvedKey \in DOMAIN PriceMap
     /\ ~IsNone(PriceMap[ResolvedKey]))
  => Res.monthly.dollarsCompute = RMul(Res.monthly.credits, PriceMap[ResolvedKey])

Region == pricing["regions"][inp.region]

EgressTable == IF "egressPerTB" \in DOMAIN Region THEN Region["egressPerTB"] ELSE EmptyDict

\* the rate stored under key k, 0 when the key is absent or holds null
RateAt(k) ==
  IF k \in DOMAIN EgressTable /\ ~IsNone(EgressTable[k]) THEN EgressTable[k] ELSE Zero

\* the rate of the claim: the route's own entry, else the substitute route's
ClaimedEgressRate ==
  IF inp.egress_route \in DOMAIN EgressTable THEN RateAt(inp.egress_route)
  ELSE IF inp.egress_route = "crossCloud" THEN RateAt("internet")
  ELSE IF inp.egress_route = "accountTransfer" THEN RateAt("interRegion")
  ELSE Zero

StorageRate ==
  IF "storagePerTBMonth" \in DOMAIN Region THEN Region["storagePerTBMonth"] ELSE Zero

\* C18: the three storage fields are the three volumes times the one region
\* rate (0 when absent), and dollarsStorage is their sum.
C18_StorageBreakdown ==
  ComputeReturned
  => /\ Res.monthly.dollarsStorageRegular = RMul(inp.uncompressed_tb_at_rest, StorageRate)
     /\ Res.monthly.dollarsStorageTimeTravel = RMul(inp.time_travel_tb, StorageRate)
     /\ Res.monthly.dollarsStorageFailsafe = RMul(inp.failsafe_tb, StorageRate)
     /\ Res.monthly.dollarsStorage =
          RAdd(RAdd(Res.monthly.dollarsStorageRegular,
                    Res.monthly.dollarsStorageTimeTravel),
               Res.monthly.dollarsStorageFailsafe)

\* C18 witness: three positive volumes at the rate 23
C18_Witness ==
  /\ ComputeReturned /\ StorageRate = R(23)
  /\ inp.uncompressed_tb_at_rest = R(30) /\ inp.time_travel_tb = R(1)
  /\ inp.failsafe_tb = R(2)
  /\ Res.monthly.dollarsStorage = R(33 * 23)

\* C19: monthly.credits is the sum of the three daily fields of the result
\* times frequency_per_month.
C19_MonthlyCredits ==
  ComputeReturned
  => Res.monthly.credits =
       RMul(RAdd(Res.daily.whCreditsDay,
                 RAdd(Res.daily.csCreditsDay, Res.daily.serverlessCreditsDay)),
            R(inp.frequency_per_month))

\* C19 witness: three positive daily terms and 30 runs a month
C19_Witness ==
  /\ ComputeReturned /\ inp.frequency_per_month = 30
  /\ RLt(Zero, Res.daily.whCreditsDay) /\ RLt(Zero, Res.daily.csCreditsDay)
  /\ RLt(Zero, Res.daily.serverlessCreditsDay)

SnowpipeTable(model) ==
  LET sp == IF "snowpipe" \in DOMAIN pricing["serverless"]
            THEN pricing["serverless"]["snowpipe"] ELSE EmptyDict
  IN IF model \in DOMAIN sp THEN sp[model] ELSE EmptyDict

RateOr(t, k, dflt) == IF k \in DOMAIN t THEN t[k] ELSE dflt

PerGbCredits ==
  RMul(inp.snowpipe_uncompressed_gb_per_day,
       RateOr(SnowpipeTable("businessCriticalVPS"), "rateCreditsPerGB", Rat(37, 10000)))

PerFileCredits ==
  RAdd(RMul(RDiv(inp.snowpipe_files_per_day, R(1000)),
            RateOr(SnowpipeTable("standardEnterprise"), "rateCreditsPer1000Files",
                   Rat(6, 100))),
       RMul(inp.snowpipe_compute_hours_per_day,
            RateOr(SnowpipeTable("standardEnterprise"), "multiplierCompute",
                   Rat(125, 100))))

\* the same call with the per-file inputs, or the per-GB input, set to 0
WithoutFileInputs ==
  Compute([inp EXCEPT !.snowpipe_files_per_day = Zero,
                      !.snowpipe_compute_hours_per_day = Zero], pricing, rules, calib)

WithoutGbInput ==
  Compute([inp EXCEPT !.snowpipe_uncompressed_gb_per_day = Zero], pricing, rules, calib)

SameFigures(o) ==
  /\ o.kind = "return"
  /\ o.value.selection = Res.selection
  /\ o.value.daily = Res.daily
  /\ o.value.monthly = Res.monthly

\* C20: the edition alone picks the ingestion model. business_critical and
\* vps: GB/day * rateCreditsPerGB, and files/day and compute hours/day change
\* no figure of the result; standard and enterprise: files/1000 * rate +
\* compute hours * multiplier, and GB/day changes no figure.
C20_SnowpipeModelByEdition ==
  ComputeReturned
  => IF inp.edition \in {"business_critical", "vps"}
     THEN loc.snowpipe_credits_day = PerGbCredits /\ SameFigures(WithoutFileInputs)
     ELSE loc.snowpipe_credits_day = PerFileCredits /\ SameFigures(WithoutGbInput)

\* C20 witness: vps priced at the business_critical rate, 1000 GB and 1000
\* files a day: 3.7 ingestion credits, the per-GB figure
C20_Witness ==
  /\ ComputeReturned /\ inp.edition = "vps" /\ "vps" \notin DOMAIN PriceMap
  /\ loc.price_per_credit = PriceMap["business_critical"]
  /\ inp.snowpipe_uncompressed_gb_per_day = R(1000)
  /\ inp.snowpipe_files_per_day = R(1000)
  /\ inp.snowpipe_compute_hours_per_day = R(1)
  /\ loc.snowpipe_credits_day = Rat(37, 10)

\* C14: no step of a call changes the InputModel or the pricing, rules or
\* calibration table, and no step of pick_size changes its size-factor table;
\* so after the call, returned or raised, they are as they were before it.
C14_ArgumentsUntouched ==
  [][pc # "idle" =>
       /\ inp' = inp /\ pricing' = pricing /\ rules' = rules /\ calib' = calib
       /\ pc \in {"pick_entry", "pick_loop"} =>
            loc'.p.size_factor = loc.p.size_factor]_vars

\* C14 witness: a call returned after the engine filled in the waiver default
\* and the default family, and both tables still lack those entries
C14_Witness ==
  /\ ComputeReturned
  /\ "waiverPctOfDailyWH" \notin DOMAIN rules["cloudServices"]
  /\ Res.daily.csCreditsDay = RMul(Rat(1, 10), Res.daily.whCreditsDay)
  /\ loc.p.size_factor = rules["sizeFactor"]

CallEnded(i) == par.th[i].pc \in {"done", "raised"}

Alone(i) == Compute(par.th[i].inp, par.orig.pricing, par.orig.rules, par.orig.calib)

\* C15: whatever the interleaving of the stages of concurrent calls sharing
\* the tables, each call ends with the outcome it has when run alone.
C15_InterleavingSafe ==
  \A i \in Threads : CallEnded(i) => par.th[i].outcome = Alone(i)

\* C15 witness: call 1 has returned while call 2, made with another input, is
\* between its stages, and call 2 ran its first stages before call 1 ended
C15_Witness ==
  /\ par.th[1].pc = "done" /\ par.th[1].outcome.kind = "return"
  /\ par.th[2].pc = "cloud_services"
  /\ par.th[2].inp # par.th[1].inp

TasksTable == RateOr(pricing["serverless"], "serverlessTasks", EmptyDict)

\* compute is past the serverless stage, which set its three figures
PastServerless == fn = "compute" /\ ~IsNone(loc.serverless_credits_day)

\* compute raised in the serverless stage itself
FailedAtServerless ==
  /\ fn = "compute" /\ pc = "raised"
  /\ ~IsNone(loc.cs_credits_day) /\ IsNone(loc.serverless_credits_day)

\* C21: background-task credits per day. When serverlessTasks declares
\* multiplierCompute (a number, not null):
\* hours * (multiplierCompute + multiplierCloudServices),
\* the latter 1 when absent. Otherwise: hours * tasksOverheadCreditsPerHour,
\* 0.25 when absent, and multiplierCloudServices is ignored. Neither shape of
\* the serverless table makes compute fail.
C21_TasksCredits ==
  /\ PastServerless =>
       loc.tasks_credits_day =
         (IF "multiplierCompute" \in DOMAIN TasksTable
               /\ ~IsNone(TasksTable["multiplierCompute"])
          THEN RMul(inp.tasks_hours_per_day,
                    RAdd(TasksTable["multiplierCompute"],
                         RateOr(TasksTable, "multiplierCloudServices", R(1))))
          ELSE RMul(inp.tasks_hours_per_day,
                    RateOr(pricing["serverless"], "tasksOverheadCreditsPerHour",
                           Rat(25, 100))))
  /\ "serverless" \in DOMAIN pricing => ~FailedAtServerless

\* C21 witness: serverlessTasks holds multiplierCloudServices = 3 only, no
\* overhead rate is declared, and half an hour of tasks cost 0.5 * 0.25
C21_Witness ==
  /\ ComputeReturned
  /\ TasksTable = [multiplierCloudServices |-> R(3)]
  /\ "tasksOverheadCreditsPerHour" \notin DOMAIN pricing["serverless"]
  /\ inp.tasks_hours_per_day = Rat(1, 2)
  /\ loc.tasks_credits_day = Rat(1, 8)

\* what pick_size returns for the result's XS hours and the call's window,
\* concurrency and size-factor table
PickedForResult ==
  PickSize(Res.daily.xsHours, inp.batch_window_hours, inp.concurrency,
           rules["sizeFactor"])

\* C22: in every result, selection.size is what pick_size returns for
\* (xsHours, batch_window_hours, concurrency, rules.sizeFactor),
\* selection.creditsPerHour is rules.warehouseCreditsPerHour[size], and in
\* standard mode whHoursDay = xsHours * max(1, concurrency) / sizeFactor[size]
\* and whCreditsDay = whHoursDay * creditsPerHour.
C22_SelectionConsistent ==
  ComputeReturned
  => /\ PickedForResult.exc = ""
     /\ Res.selection.size = PickedForResult.ret
     /\ Res.selection.creditsPerHour =
          rules["warehouseCreditsPerHour"][Res.selection.size]
     /\ inp.warehouse_type = "standard" =>
          /\ Res.selection.whHoursDay =
               ProjectedHours(Res.daily.xsHours, inp.concurrency,
                              rules["sizeFactor"], Res.selection.size)
          /\ Res.daily.whCreditsDay =
               RMul(Res.selection.whHoursDay, Res.selection.creditsPerHour)

\* C22 witness: scenario A of the validation script: 36 XS hours, two jobs,
\* 2XL at 43.2 credits an hour, 2.25 hours and 97.2 credits a day
C22_Witness ==
  /\ ComputeReturned /\ inp.warehouse_type = "standard" /\ inp.concurrency = 2
  /\ Res.daily.xsHours = R(36) /\ Res.selection.size = "2XL"
  /\ Res.selection.creditsPerHour = Rat(432, 10)
  /\ Res.selection.whHoursDay = Rat(9, 4)
  /\ Res.daily.whCreditsDay = Rat(972, 10)

\* the same call of compute with concurrency = 1
WithOneJob == Compute([inp EXCEPT !.concurrency = 1], pricing, rules, calib)

\* C23: a concurrency of 0, or any value below 1, counts as 1: compute gives
\* the selection, daily and monthly sections (or the exception) it gives for
\* concurrency = 1, and pick_size returns the same size for both.
C23_ConcurrencyBelowOne ==
  /\ (ComputeReturned /\ inp.concurrency < 1) => SameFigures(WithOneJob)
  /\ (ComputeRaised /\ inp.concurrency < 1) => outcome = WithOneJob
  /\ (PickDone /\ Frame.concurrency < 1)
     => LET q == PickSize(Frame.xs_hours, Frame.window_h, 1, Frame.size_factor)
        IN q.ret = Frame.ret /\ q.exc = Frame.exc

\* C23 witness: concurrency -1 and 72000 CPU seconds: 36 XS hours in a window
\* of one hour take the 3XL of a single job
C23_Witness ==
  /\ ComputeReturned /\ inp.concurrency = -1
  /\ Res.daily.xsHours = R(36) /\ inp.batch_window_hours = R(1)
  /\ Res.selection.size = "3XL"
  /\ Res.selection.whHoursDay = Rat(36, 64)

\* the locals of compute had the sizing stage handed it size s
SizedAs(s) ==
  CloudServices(inp, pricing, rules, calib,
                Warehouse(inp, pricing, rules, calib, [loc EXCEPT !.size = s]))

\* warehouse plus cloud-services credits a day at size s
DailyCreditsAt(s) == RAdd(SizedAs(s).wh_credits_day, SizedAs(s).cs_credits_day)

ChosenDailyCredits == RAdd(Res.daily.whCreditsDay, Res.daily.csCreditsDay)

StageOrder ==
  << "validate", "normalize", "size", "pick_entry", "pick_loop", "pick_exit",
     "warehouse", "cloud_services", "serverless", "monthly", "dollars", "storage",
     "transfer", "total", "return", "done" >>

StageAfter(s) ==
  LET k == CHOOSE j \in 1..Len(StageOrder) : StageOrder[j] = s IN StageOrder[k + 1]

\* a step of a call keeps to the order: the ladder loop goes on to the next
\* size or leaves, every other stage goes on to the one after it or raises,
\* and nothing follows the end of the call
OrderedStep ==
  \/ pc = "idle" /\ pc' \in {"validate", "pick_entry"}
  \/ pc = "pick_loop" /\ pc' = "pick_loop"
       /\ loc.p.i <= Len(order) /\ loc'.p.i = loc.p.i + 1
  \/ pc = "pick_loop" /\ pc' = "pick_exit"
  \/ pc = "pick_exit" /\ fn = "pick_size" /\ pc' \in {"done", "raised"}
  \/ /\ pc \notin {"idle", "pick_loop", "done", "raised"}
     /\ ~(pc = "pick_exit" /\ fn = "pick_size")
     /\ pc' \in {StageAfter(pc), "raised"}

CallOver == pc \in {"done", "raised"}

\* C25: every call terminates. pick_size examines at most the eight ladder
\* sizes, each at most once and in ascending order, then returns; compute runs
\* its stages once, in the fixed order, with no loop or retry, and always
\* reaches "result returned" or "error raised".
C25_Terminates ==
  /\ [](pc = "pick_loop" => loc.p.i \in 1..(Len(order) + 1))
  /\ [][OrderedStep]_vars
  /\ (pc # "idle") ~> CallOver

\* C25 witness: compute returned after pick_size had examined all eight sizes
\* and fallen back to 4XL
C25_Witness ==
  /\ ComputeReturned /\ loc.p.i = Len(order) + 1
  /\ Res.selection.size = "4XL" /\ ~Fits("4XL")

\* the same call of compute with n clusters
WithClusters(n) == Compute([inp EXCEPT !.cluster_count = n], pricing, rules, calib)

\* C26: cluster_count counts under multi_cluster only. With warehouse_type
\* standard or serverless, another cluster_count changes no field of daily or
\* monthly, nor selection.size, creditsPerHour or whHoursDay: only
\* selection.clusterCount and the echo follow it. And warehouse_type
\* serverless gives the selection, daily and monthly sections of standard.
C26_ClusterCountFrame ==
  (ComputeReturned /\ inp.warehouse_type \in {"standard", "serverless"})
  => /\ \A n \in 1..(MaxClusters + 1) :
          LET o == WithClusters(n) IN
          /\ o.kind = "return"
          /\ o.value.daily = Res.daily
          /\ o.value.monthly = Res.monthly
          /\ o.value.selection = [Res.selection EXCEPT !.clusterCount = n]
          /\ o.value.inputsEcho = [Res.inputsEcho EXCEPT !.clusterCount = n]
     /\ Res.selection.clusterCount = inp.cluster_count
     /\ SameFigures(StandardMode)

\* C26 witness: warehouse_type serverless with three clusters, and the
\* positive credits of one cluster in standard mode
C26_Witness ==
  /\ ComputeReturned /\ inp.warehouse_type = "serverless" /\ inp.cluster_count = 3
  /\ RLt(Zero, Res.daily.whCreditsDay)
  /\ Res.daily.whCreditsDay = WithClusters(1).value.daily.whCreditsDay
  /\ Res.daily.whCreditsDay = StandardMode.value.daily.whCreditsDay

\* the 19 fields of the echo, each with the value the caller supplied
EchoOf(in) ==
  [db2CpuSecondsPerDay |-> in.db2_cpu_seconds_per_day,
   batchWindowHours |-> in.batch_window_hours,
   concurrency |-> in.concurrency,
   uncompressedTBAtRest |-> in.uncompressed_tb_at_rest,
   frequencyPerMonth |-> in.frequency_per_month,
   egressTB |-> in.egress_tb,
   egressRoute |-> in.egress_route,
   region |-> in.region,
   edition |-> in.edition,
   family |-> in.family,
   snowpipeFilesPerDay |-> in.snowpipe_files_per_day,
   snowpipeComputeHoursPerDay |-> in.snowpipe_compute_hours_per_day,
   snowpipeUncompressedGBPerDay |-> in.snowpipe_uncompressed_gb_per_day,
   searchOptComputeHoursPerDay |-> in.searchopt_compute_hours_per_day,
   tasksHoursPerDay |-> in.tasks_hours_per_day,
   timeTravelTB |-> in.time_travel_tb,
   failsafeTB |-> in.failsafe_tb,
   warehouseType |-> in.warehouse_type,
   clusterCount |-> in.cluster_count]

\* the fields of the other three sections: sizes, credits and dollars only
FigureFields ==
  [selection |-> {"size", "creditsPerHour", "whHoursDay", "clusterCount"},
   daily |-> {"xsHours", "whCreditsDay", "csCreditsDay", "serverlessCreditsDay"},
   monthly |-> {"credits", "dollarsCompute", "dollarsStorage", "dollarsStorageRegular",
                "dollarsStorageTimeTravel", "dollarsStorageFailsafe",
                "dollarsTransfer", "grandTotal"}]

\* a family, edition or route was replaced during the call
Substituted ==
  \/ loc.wf # inp.family
  \/ loc.edition_key # inp.edition
  \/ loc.egress_route_key # inp.egress_route

\* C27: inputsEcho holds all 19 input fields with exactly the supplied values,
\* also after a fallback (unknown family, vps priced as business_critical, a
\* substituted egress route): the echo still shows the supplied family,
\* edition and route, and no field of the result records the substitution.
C27_EchoAsSupplied ==
  ComputeReturned
  => /\ Res.inputsEcho = EchoOf(inp)
     /\ Cardinality(DOMAIN Res.inputsEcho) = 19
     /\ DOMAIN Res = {"selection", "daily", "monthly", "inputsEcho"}
     /\ \A sec \in DOMAIN FigureFields : DOMAIN Res[sec] = FigureFields[sec]
     /\ Substituted =>
          /\ Res.inputsEcho.family = inp.family
          /\ Res.inputsEcho.edition = inp.edition
          /\ Res.inputsEcho.egressRoute = inp.egress_route

\* C27 witness: all three substitutions in one call (adhoc -> reporting,
\* vps -> business_critical, crossCloud -> internet) and the echo as supplied
C27_Witness ==
  /\ ComputeReturned
  /\ inp.family = "adhoc" /\ loc.wf = "reporting"
  /\ inp.edition = "vps" /\ loc.edition_key = "business_critical"
  /\ inp.egress_route = "crossCloud" /\ loc.egress_route_key = "internet"
  /\ Res.inputsEcho.family = "adhoc" /\ Res.inputsEcho.edition = "vps"
  /\ Res.inputsEcho.egressRoute = "crossCloud"

IsNumber(x) == DOMAIN x = {"n", "d"}

\* every number in a table, at whatever depth, is null or at least 0
RECURSIVE NoNegativeNumber(_)
NoNegativeNumber(t) ==
  IF IsNumber(t) THEN IsNone(t) \/ t.n >= 0
  ELSE \A k \in DOMAIN t : NoNegativeNumber(t[k])

\* rates, prices and multipliers at least 0, size factors above 0
NonNegativeTables ==
  /\ NoNegativeNumber(pricing)
  /\ NoNegativeNumber(rules)
  /\ \A s \in DOMAIN rules["sizeFactor"] : rules["sizeFactor"][s].n > 0
  /\ \A f \in DOMAIN calib["workloadFamilies"] :
       NoNegativeNumber(calib["workloadFamilies"][f])

InputsInDomain ==
  /\ RLe(Zero, inp.db2_cpu_seconds_per_day) /\ RLt(Zero, inp.batch_window_hours)
  /\ RLe(Zero, inp.uncompressed_tb_at_rest) /\ RLe(Zero, inp.time_travel_tb)
  /\ RLe(Zero, inp.failsafe_tb) /\ RLe(Zero, inp.egress_tb)
  /\ inp.frequency_per_month >= 0 /\ inp.cluster_count >= 1
  /\ RLe(Zero, inp.snowpipe_files_per_day)
  /\ RLe(Zero, inp.snowpipe_compute_hours_per_day)
  /\ RLe(Zero, inp.snowpipe_uncompressed_gb_per_day)
  /\ RLe(Zero, inp.searchopt_compute_hours_per_day)
  /\ RLe(Zero, inp.tasks_hours_per_day)

\* C28: with the inputs in their domain and tables whose rates, prices and
\* multipliers are at least 0 and whose size factors are positive, every
\* number of selection, daily and monthly is at least 0, and grandTotal is at
\* least each of dollarsCompute, dollarsStorage and dollarsTransfer.
C28_NonNegative ==
  (ComputeReturned /\ InputsInDomain /\ NonNegativeTables)
  => /\ \A sec \in {"selection", "daily", "monthly"} :
          \A k \in DOMAIN Res[sec] \ {"size", "clusterCount"} :
            ~IsNone(Res[sec][k]) /\ RLe(Zero, Res[sec][k])
     /\ Res.selection.clusterCount >= 0
     /\ RLe(Res.monthly.dollarsCompute, Res.monthly.grandTotal)
     /\ RLe(Res.monthly.dollarsStorage, Res.monthly.grandTotal)
     /\ RLe(Res.monthly.dollarsTransfer, Res.monthly.grandTotal)

\* C28 witness: a 4XL, where the 4.4 credits/hour cap is far below the 10%
\* term, with positive compute, storage and transfer dollars
C28_Witness ==
  /\ ComputeReturned /\ InputsInDomain /\ NonNegativeTables
  /\ Res.selection.size = "4XL"
  /\ RLt(Zero, Res.daily.csCreditsDay)
  /\ RLt(Res.daily.csCreditsDay, RMul(WaiverOf(rules), Res.daily.whCreditsDay))
  /\ RLt(Zero, Res.monthly.dollarsStorage) /\ RLt(Zero, Res.monthly.dollarsTransfer)
  /\ RLt(Res.monthly.dollarsCompute, Res.monthly.grandTotal)

CliArgs == cli.argv.args

RegionListed == CliArgs.region \in DOMAIN pricing["regions"]

CliPriceMap == pricing["regions"][CliArgs.region]["pricePerCredit"]

\* the run has parsed its command line, loaded the three tables and found
\* the keys its validation reads
Validating ==
  /\ cli.pc \notin {"off", "parse", "load"}
  /\ cli.argv.kind = "ok" /\ cli.config.readable
  /\ "regions" \in DOMAIN pricing
  /\ RegionListed => "pricePerCredit" \in DOMAIN pricing["regions"][CliArgs.region]

\* the two cases in which the validation turns the run down
Rejected ==
  \/ ~RegionListed
  \/ CliArgs.edition # "vps" /\ CliArgs.edition \notin DOMAIN CliPriceMap

\* the family is not in a calibration table that names its default family
FamilyOnlyUnknown ==
  /\ "workloadFamilies" \in DOMAIN calib /\ "defaultFamily" \in DOMAIN calib
  /\ CliArgs.workload_family \notin DOMAIN calib["workloadFamilies"]

\* C29: the CLI validates before it computes. When --region is not in the
\* pricing table, or --edition is not vps and not in the region's
\* pricePerCredit map, main exits with code 1 without ever calling compute
\* and without printing a result; when --workload-family is not in the
\* calibration table (which names a default family), main only emits a
\* warning and still calls compute.
C29_ValidatesBeforeCompute ==
  /\ (Validating /\ Rejected) =>
       /\ ~cli.called /\ cli.stdout = <<>>
       /\ cli.pc \in {"check_region", "check_edition", "exited"}
       /\ cli.pc = "exited" => cli.exit = 1
  /\ (Validating /\ ~Rejected /\ FamilyOnlyUnknown
        /\ cli.pc \notin {"check_region", "check_edition", "check_family"}) =>
       /\ cli.stderr[1] = "WARNING"
       /\ cli.pc # "compute" => cli.called
       /\ (cli.pc = "exited" /\ cli.exit = 1) => cli.exc # ""

\* C29 witness: --edition enterprise is missing from the price map, which
\* holds the business_critical price the engine would have fallen back to;
\* the run ended with status 1 and compute was not called
C29_Witness ==
  /\ cli.pc = "exited" /\ Validating /\ RegionListed
  /\ CliArgs.edition = "enterprise" /\ ~Has(CliPriceMap, "enterprise")
  /\ Has(CliPriceMap, "business_critical")
  /\ cli.exit = 1 /\ ~cli.called /\ cli.stdout = <<>>
  /\ cli.stderr = <<"ERROR", "available">>

\* the run met one of the errors of the claim
CliFailed ==
  \/ cli.argv.kind = "invalid"
  \/ cli.argv.kind = "ok" /\ ~cli.config.readable
  \/ cli.exc # ""

\* C30: the CLI process has exactly two exit codes: 0 on success, the result
\* printed to stdout, and 1 on every error: invalid command-line arguments, a
\* missing or unreadable configuration file, an error raised by compute.
C30_TwoExitCodes ==
  cli.pc = "exited"
  => /\ cli.exit \in {0, 1}
     /\ cli.exit = 0 => cli.stdout = <<"result">>
     /\ CliFailed => cli.exit = 1










====
